---------------------------- MODULE Spec2Model ----------------------------
(***************************************************************************)
(* A model of crossbackup: the Sync engine (backup / undo / clean /        *)
(* get_backups), the retention computation of Sync.clean, the snapshot     *)
(* providers (_Dir, _Btrfs, _Zfs) and the archive handler (_Archive).      *)
(*                                                                         *)
(* Time is counted in seconds from 2024-01-01T00:00:00 (a Monday); all     *)
(* timestamps are taken in one timezone.  External tools (rclone, zfs,     *)
(* btrfs, mount, the archivers) are modelled by their effect on the remote *)
(* store and on the operating system, and by an outcome drawn from         *)
(* {ok, fail, interrupt}.                                                  *)
(***************************************************************************)
EXTENDS Integers, Sequences, FiniteSets, TLC

VARIABLES
    cfg,          \* SingleBackupConfig of this Sync (immutable for the run)
    clock,        \* index into Instants: the wall clock
    remote,       \* objects stored at the destination root
    backups,      \* Sync._backups: None or Some(sorted list of Backup)
    new_backup,   \* Sync.new_backup: None or Some(Backup)
    last,         \* what the last finished call did (commands issued, result)
    env,          \* the machine and the network the Sync runs on
    pc,           \* where the Sync is: "idle" or a step inside backup()
    prov,         \* the snapshot handler (_Dir, _Btrfs or _Zfs) in use
    arch,         \* the archive handler (_Archive) in use
    os,           \* snapshots, mounts, scratch directories and archive files
    run           \* the backup() in progress: its timestamp, what it made

vars == <<cfg, clock, remote, backups, new_backup, last, env, pc, prov, arch,
          os, run>>

(***************************************************************************)
(* Bounds of the model.                                                    *)
(***************************************************************************)
NumInstants == 4

\* Values a tier limit is drawn from.
Limits == {0, 1, 2}

(***************************************************************************)
(* Optional values (Python's None / a value).                              *)
(***************************************************************************)
None == <<>>
Some(v) == <<v>>
IsNone(o) == o = <<>>
Get(o) == o[1]

Range(s) == {s[i] : i \in 1..Len(s)}

(***************************************************************************)
(* The calendar, as datetime.replace and timedelta compute it.             *)
(***************************************************************************)
At(day, hh, mm) == day * 86400 + hh * 3600 + mm * 60

\* The instants the clock runs through, and at which backups were taken.
\* Day 363 is Sun 2024-12-29, day 365 is Tue 2024-12-31, day 366 is
\* Wed 2025-01-01: the first four instants fall into three hours, three
\* days, two weeks, two months and two years.
Instants ==
    << At(363, 23, 30), At(365, 9, 5),  At(365, 9, 40), At(366, 8, 0),
       At(366, 8, 20),  At(372, 7, 0),  At(400, 12, 0), At(401, 12, 0) >>

YearLengths == <<366, 365, 365>>     \* 2024, 2025, 2026
MonthLengths(leap) ==
    <<31, IF leap THEN 29 ELSE 28, 31, 30, 31, 30, 31, 31, 30, 31, 30, 31>>

RECURSIVE YearStartFrom(_, _, _)
YearStartFrom(d, start, y) ==
    IF y >= Len(YearLengths) \/ d < start + YearLengths[y]
    THEN <<start, y>>
    ELSE YearStartFrom(d, start + YearLengths[y], y + 1)

RECURSIVE MonthStartFrom(_, _, _, _)
MonthStartFrom(d, start, m, lens) ==
    IF m >= Len(lens) \/ d < start + lens[m]
    THEN start
    ELSE MonthStartFrom(d, start + lens[m], m + 1, lens)

\* hour = backup.time.replace(minute=0, second=0, microsecond=0)
HourOf(t) == t - (t % 3600)
\* day = hour.replace(hour=0)
DayOf(t) == t - (t % 86400)
\* day.weekday(): Monday is 0
Weekday(t) == (t \div 86400) % 7
\* week = day - timedelta(days=day.weekday())
WeekOf(t) == DayOf(t) - Weekday(t) * 86400
\* year = month.replace(month=1)
YearOf(t) == YearStartFrom(t \div 86400, 0, 1)[1] * 86400
\* month = day.replace(day=1)
MonthOf(t) ==
    LET ys == YearStartFrom(t \div 86400, 0, 1)
    IN  MonthStartFrom(t \div 86400, ys[1], 1,
                       MonthLengths(YearLengths[ys[2]] = 366)) * 86400

Tiers ==
    <<"limit_hourly", "limit_daily", "limit_weekly", "limit_monthly",
      "limit_yearly">>
TierSet == Range(Tiers)

TierKey(tier, t) ==
    CASE tier = "limit_hourly"  -> HourOf(t)
      [] tier = "limit_daily"   -> DayOf(t)
      [] tier = "limit_weekly"  -> WeekOf(t)
      [] tier = "limit_monthly" -> MonthOf(t)
      [] tier = "limit_yearly"  -> YearOf(t)

\* The five keys of every instant, computed once.
KeyTable == [t \in Range(Instants) |-> [tier \in TierSet |-> TierKey(tier, t)]]
BucketKey(tier, t) == KeyTable[t][tier]


(***************************************************************************)
(* Backup records and the objects of the remote store.                     *)
(***************************************************************************)
\* An object "{target}_{timestamp}{ext}" at the destination root; is_dir is
\* what the listing reports as MimeType = inode/directory.
Object(target, time, ext, is_dir) ==
    [target |-> target, time |-> time, ext |-> ext, is_dir |-> is_dir]

\* The object's Path (= Name) in the listing.
ObjPath(o) == <<o.target, o.time, o.ext>>

MkBackup(time, path, is_dir) ==
    [time |-> time, path |-> path, is_dir |-> is_dir]

\* Backup.__eq__: time and path, nothing else
BackupEq(a, b) == a.time = b.time /\ a.path = b.path

\* Backup.__lt__
BackupLt(a, b) == a.time < b.time

\* membership and difference of Python sets / lists of Backup (by __eq__)
BackupIn(b, S) == \E x \in S : BackupEq(b, x)
BackupMinus(S, T) == {b \in S : ~BackupIn(b, T)}

\* Backup.remove: the rclone command and its target
RemoveCmd(b) ==
    [cmd |-> IF b.is_dir THEN "purge" ELSE "delete", path |-> b.path]

(***************************************************************************)
(* Sync.get_backups                                                        *)
(***************************************************************************)
\* The entries of a listing that get_backups turns into Backup records: the
\* name starts with "{name}_" and the rest (up to the first "." for a
\* non-directory) parses as a timestamp.
Recognised(o, name) == o.target = name /\ (o.is_dir => o.ext = "")

ParseListing(objs, name) ==
    {MkBackup(o.time, ObjPath(o), o.is_dir) : o \in {x \in objs : Recognised(x, name)}}

\* sorted(ret): ascending by time; records of equal time keep the order of
\* the listing, which is any order.
RECURSIVE SortedLists(_)
SortedLists(S) ==
    IF S = {} THEN {<<>>}
    ELSE LET firsts == {m \in S : \A x \in S : ~BackupLt(x, m)}
         IN  UNION {{<<m>> \o s : s \in SortedLists(S \ {m})} : m \in firsts}

\* get_backups whose failed listing is stored as an empty history
GetBackups_FailureCached(cache, force, objs, name) ==
    IF ~IsNone(cache) /\ ~force
    THEN {[ret |-> Get(cache), cache |-> cache, listed |-> 0, ls_ok |-> TRUE]}
    ELSE {[ret |-> <<>>, cache |-> Some(<<>>), listed |-> 1, ls_ok |-> FALSE]}
         \cup {[ret |-> s, cache |-> Some(s), listed |-> 1, ls_ok |-> TRUE] :
                 s \in SortedLists(ParseListing(objs, name))}

\* Every outcome of get_backups(force): the list returned, the cache after
\* the call, and whether the remote was listed.
GetBackups(cache, force, objs, name) ==
    IF ~IsNone(cache) /\ ~force
    THEN {[ret |-> Get(cache), cache |-> cache, listed |-> 0, ls_ok |-> TRUE]}
    ELSE {[ret |-> <<>>, cache |-> cache, listed |-> 1, ls_ok |-> FALSE]}
         \cup {[ret |-> s, cache |-> Some(s), listed |-> 1, ls_ok |-> TRUE] :
                 s \in SortedLists(ParseListing(objs, name))}

(***************************************************************************)
(* The retention computation of Sync.clean                                 *)
(***************************************************************************)
\* cur_time - backup.time < timedelta(seconds=min_age)
InGrace(b, now, min_age) == now - b.time < min_age

EmptyGrouping == [tier \in TierSet |-> <<>>]

\* GroupOne that lets a later backup of the period replace the stored one
GroupOne_LatestWins(g, b) ==
    [tier \in TierSet |->
        LET key == BucketKey(tier, b.time)
        IN  IF key \notin DOMAIN g[tier]
            THEN (key :> b) @@ g[tier]
            ELSE IF BackupLt(g[tier][key], b)
                 THEN [g[tier] EXCEPT ![key] = b]
                 ELSE g[tier]]

\* One pass of the inner loop over the five tiers for one backup: the first
\* backup seen for a key is stored, a later one replaces it only if it is
\* strictly earlier.
GroupOne(g, b) ==
    [tier \in TierSet |->
        LET key == BucketKey(tier, b.time)
        IN  IF key \notin DOMAIN g[tier]
            THEN (key :> b) @@ g[tier]
            ELSE IF BackupLt(b, g[tier][key])
                 THEN [g[tier] EXCEPT ![key] = b]
                 ELSE g[tier]]

\* GroupingFrom without the "continue" of the grace branch: a backup in the
\* grace window is grouped like any other.
RECURSIVE GroupingFrom_NoContinue(_, _, _, _, _)
GroupingFrom_NoContinue(bk, i, now, min_age, g) ==
    IF i > Len(bk) THEN g
    ELSE GroupingFrom_NoContinue(bk, i + 1, now, min_age, GroupOne(g, bk[i]))

\* The loop over backups: a backup in the grace window is skipped
\* (continue), every other one is grouped.
RECURSIVE GroupingFrom(_, _, _, _, _)
GroupingFrom(bk, i, now, min_age, g) ==
    IF i > Len(bk) THEN g
    ELSE GroupingFrom(bk, i + 1, now, min_age,
                      IF InGrace(bk[i], now, min_age) THEN g
                      ELSE GroupOne(g, bk[i]))

Grouping(bk, now, min_age) == GroupingFrom(bk, 1, now, min_age, EmptyGrouping)

\* TopKeys with the sort ascending (reverse=True forgotten).
RECURSIVE TopKeys_Ascending(_, _)
TopKeys_Ascending(keys, n) ==
    IF n <= 0 \/ keys = {} THEN {}
    ELSE LET low == CHOOSE k \in keys : \A x \in keys : k <= x
         IN  {low} \cup TopKeys_Ascending(keys \ {low}, n - 1)

\* TopKeys that takes one key more than the limit
RECURSIVE TopKeys_OneMore(_, _)
TopKeys_OneMore(keys, n) ==
    IF n < 0 \/ keys = {} THEN {}
    ELSE LET top == CHOOSE k \in keys : \A x \in keys : x <= k
         IN  {top} \cup TopKeys_OneMore(keys \ {top}, n - 1)

\* TopKeys whose slice starts behind the most recent period
TopKeys_SkipNewest(keys, n) ==
    {k \in keys : LET newer == Cardinality({x \in keys : x > k})
                  IN  1 <= newer /\ newer <= n}

\* itertools.islice(sorted(local_group.items(), reverse=True), limit)
RECURSIVE TopKeys(_, _)
TopKeys(keys, n) ==
    IF n <= 0 \/ keys = {} THEN {}
    ELSE LET top == CHOOSE k \in keys : \A x \in keys : x <= k
         IN  {top} \cup TopKeys(keys \ {top}, n - 1)

\* keep_alive after both loops
KeepAlive(bk, now, timeline) ==
    LET g == Grouping(bk, now, timeline.min_age)
    IN  {b \in Range(bk) : InGrace(b, now, timeline.min_age)}
        \cup UNION {{g[tier][k] : k \in TopKeys(DOMAIN g[tier], timeline[tier])} :
                      tier \in TierSet}

\* set(backups) - keep_alive
ToRemove(bk, now, timeline) ==
    BackupMinus(Range(bk), KeepAlive(bk, now, timeline))


\* for backup in set(backups) - keep_alive: backup.remove(...).  The set is
\* walked in any order; a remove of an object that is not on the remote
\* fails, a remove of one that is there succeeds or fails; the first failure
\* raises out of the loop.  Each run: the commands issued, the paths that
\* were removed, and whether the loop ended normally.
OnRemote(b, objs) == \E o \in objs : ObjPath(o) = b.path

RemoveRuns(S, objs, flaky) ==
    LET done(D) == {[cmd |-> RemoveCmd(b).cmd, path |-> b.path, ok |-> TRUE] : b \in D}
        there == {b \in S : OnRemote(b, objs)}
    IN  UNION {
          (IF D = S THEN {[dels |-> done(D), removed |-> {b.path : b \in D},
                           raised |-> FALSE]} ELSE {})
          \cup {[dels |-> done(D) \cup
                            {[cmd |-> RemoveCmd(f).cmd, path |-> f.path, ok |-> FALSE]},
                 removed |-> {b.path : b \in D}, raised |-> TRUE] :
                   f \in {x \in S \ D : flaky \/ x \notin there}}
          : D \in SUBSET there}

(***************************************************************************)
(* Snapshot handlers (snapshot.py).  Every operation is the set of its     *)
(* outcomes: the handler and the operating system after it, the external   *)
(* commands it issued, the exception it raised ("none" if it returned)     *)
(* and the path it returned.                                               *)
(***************************************************************************)
EmptyOs == [snaps |-> {}, mounts |-> {}, dirs |-> {}, tmpdirs |-> {}, files |-> {}]

\* a name that does not exist yet (the collision loops of create_snapshot,
\* get_mountdir and tempfile.mkdtemp)
FreshId(used) == CHOOSE i \in 1..(Cardinality(used) + 1) : i \notin used

Provider(kind) ==
    [kind |-> kind, snap_path |-> None, datasets_cached |-> FALSE,
     snapshot_fullname |-> None, snapshot_mount_path |-> None,
     manual_mount_flag |-> FALSE]
NoProvider == Provider("directory")

Cmd(tool, arg, ok) == [tool |-> tool, arg |-> arg, ok |-> ok]

Outcome(p, o, cmds, exc, path) ==
    [prov |-> p, os |-> o, cmds |-> cmds, exc |-> exc, path |-> path]

\* How a command that acquires or transfers ends, and how a cleanup command
\* ends.
Endings == {"ok", "fail", "interrupt"}
CleanupEndings == {"ok", "fail"}
ExcOf(ending) ==
    IF ending = "interrupt" THEN "KeyboardInterrupt" ELSE "CalledProcessError"

\* ---- _Dir ----
DirEnter(p, o) == {Outcome(p, o, <<>>, "none", Some(<<"dir", 0>>))}
DirExit(p, o) == {Outcome(p, o, <<>>, "none", None)}

\* ---- _Btrfs ----
BtrfsCreateSnapshot(p, o) ==
    IF ~IsNone(p.snap_path)
    THEN {Outcome(p, o, <<>>, "none", Some(<<"btrfs", Get(p.snap_path)>>))}
    ELSE LET id == FreshId(o.snaps)
         IN  {IF e = "ok"
              THEN Outcome([p EXCEPT !.snap_path = Some(id)],
                           [o EXCEPT !.snaps = @ \cup {id}],
                           <<Cmd("btrfs snapshot", id, TRUE)>>, "none",
                           Some(<<"btrfs", id>>))
              ELSE Outcome(p, o, <<Cmd("btrfs snapshot", id, FALSE)>>,
                           ExcOf(e), None)
              : e \in Endings}

\* snap_path is left as it is after the delete
BtrfsClearSnapshot(p, o) ==
    IF IsNone(p.snap_path)
    THEN {Outcome(p, o, <<>>, "none", None)}
    ELSE LET id == Get(p.snap_path)
         IN  {IF e = "ok"
              THEN Outcome(p, [o EXCEPT !.snaps = @ \ {id}],
                           <<Cmd("btrfs delete", id, TRUE)>>, "none", None)
              ELSE Outcome(p, o, <<Cmd("btrfs delete", id, FALSE)>>,
                           "CalledProcessError", None)
              : e \in {x \in CleanupEndings : x = "ok" => id \in o.snaps}}

\* ---- _Zfs ----
ZfsMountSnapshot(p, o, e) ==
    IF ~IsNone(p.snapshot_mount_path)
    THEN {Outcome(p, o, <<>>, "none", p.snapshot_mount_path)}
    ELSE IF ~e.is_root
    THEN {Outcome(p, o, <<>>, "PermissionError", None)}
    ELSE LET d == FreshId(o.dirs)
             made == [o EXCEPT !.dirs = @ \cup {d}]
         IN  {IF x = "ok"
              THEN Outcome([p EXCEPT !.snapshot_mount_path = Some(<<"manual", d>>),
                                     !.manual_mount_flag = TRUE],
                           [made EXCEPT !.mounts = @ \cup {d}],
                           <<Cmd("mkdir", d, TRUE), Cmd("mount", d, TRUE)>>,
                           "none", Some(<<"manual", d>>))
              ELSE Outcome(p, made,
                           <<Cmd("mkdir", d, TRUE), Cmd("mount", d, FALSE)>>,
                           ExcOf(x), None)
              : x \in Endings}

\* create_snapshot past its first test: snapshot, then mount if needed
ZfsCreateNew(p, o, e) ==
         LET id == FreshId(o.snaps)
             lst == IF p.datasets_cached THEN <<>>
                    ELSE <<Cmd("zfs list", 0, TRUE)>>
             p1 == [p EXCEPT !.datasets_cached = TRUE]
         IN  (IF p.datasets_cached THEN {}
              ELSE {Outcome(p, o, <<Cmd("zfs list", 0, FALSE)>>,
                            "CalledProcessError", None)})
             \cup {Outcome(p1, o, lst \o <<Cmd("zfs snapshot", id, FALSE)>>,
                           ExcOf(x), None) : x \in {"fail", "interrupt"}}
             \cup LET p2 == [p1 EXCEPT !.snapshot_fullname = Some(id)]
                      o2 == [o EXCEPT !.snaps = @ \cup {id}]
                      c2 == lst \o <<Cmd("zfs snapshot", id, TRUE)>>
                  IN  IF e.mountpoint_known
                      THEN {Outcome([p2 EXCEPT !.snapshot_mount_path =
                                                   Some(<<"auto", id>>)],
                                    o2, c2, "none", Some(<<"auto", id>>))}
                      ELSE {Outcome(
                              [m.prov EXCEPT !.snapshot_mount_path = m.path],
                              m.os, c2 \o m.cmds, m.exc, m.path)
                            : m \in ZfsMountSnapshot(p2, o2, e)}

\* create_snapshot without its first test (snapshot_mount_path is not None)
ZfsCreateSnapshot_Always(p, o, e) == ZfsCreateNew(p, o, e)

ZfsCreateSnapshot(p, o, e) ==
    IF ~IsNone(p.snapshot_mount_path)
    THEN {Outcome(p, o, <<>>, "none", p.snapshot_mount_path)}
    ELSE ZfsCreateNew(p, o, e)

ZfsUnmountSnapshot(p, o) ==
    IF ~p.manual_mount_flag \/ IsNone(p.snapshot_mount_path)
    THEN {Outcome(p, o, <<>>, "none", None)}
    ELSE LET d == Get(p.snapshot_mount_path)[2]
         IN  {IF x = "ok"
              THEN Outcome([p EXCEPT !.snapshot_mount_path = None,
                                     !.manual_mount_flag = FALSE],
                           [o EXCEPT !.mounts = @ \ {d}, !.dirs = @ \ {d}],
                           <<Cmd("umount", d, TRUE), Cmd("rmdir", d, TRUE)>>,
                           "none", None)
              ELSE Outcome(p, o, <<Cmd("umount", d, FALSE)>>,
                           "CalledProcessError", None)
              : x \in CleanupEndings}

\* clear_snapshot that destroys the snapshot first and unmounts it after
ZfsClearSnapshot_DestroyFirst(p, o) ==
    IF IsNone(p.snapshot_fullname)
    THEN {Outcome(p, o, <<>>, "none", None)}
    ELSE LET id == Get(p.snapshot_fullname)
         IN  {Outcome(p, o, <<Cmd("zfs destroy", id, FALSE)>>,
                      "CalledProcessError", None)}
             \cup {Outcome(u.prov, u.os,
                           <<Cmd("zfs destroy", id, TRUE)>> \o u.cmds,
                           u.exc, None)
                   : u \in ZfsUnmountSnapshot(
                              [p EXCEPT !.snapshot_fullname = None],
                              [o EXCEPT !.snaps = @ \ {id}])}

\* clear_snapshot: nothing without a snapshot; else unmount if mounted by
\* hand, then destroy
ZfsClearSnapshot(p, o) ==
    IF IsNone(p.snapshot_fullname)
    THEN {Outcome(p, o, <<>>, "none", None)}
    ELSE UNION {
           IF u.exc # "none" THEN {u}
           ELSE LET id == Get(u.prov.snapshot_fullname)
                IN  {IF x = "ok"
                     THEN Outcome([u.prov EXCEPT !.snapshot_fullname = None],
                                  [u.os EXCEPT !.snaps = @ \ {id}],
                                  u.cmds \o <<Cmd("zfs destroy", id, TRUE)>>,
                                  "none", None)
                     ELSE Outcome(u.prov, u.os,
                                  u.cmds \o <<Cmd("zfs destroy", id, FALSE)>>,
                                  "CalledProcessError", None)
                     : x \in CleanupEndings}
           : u \in ZfsUnmountSnapshot(p, o)}

\* __enter__ of _Zfs and of _Btrfs: create_snapshot, and on an Exception
\* (PermissionError included; KeyboardInterrupt is none) clear_snapshot and
\* raise.  An exception of clear_snapshot replaces the first one.
ZfsEnter(p, o, e) ==
    UNION {
      IF c.exc \in {"none", "KeyboardInterrupt"} THEN {c}
      ELSE {Outcome(k.prov, k.os, c.cmds \o k.cmds,
                    IF k.exc # "none" THEN k.exc ELSE c.exc, None)
            : k \in ZfsClearSnapshot(c.prov, c.os)}
      : c \in ZfsCreateSnapshot(p, o, e)}

BtrfsEnter(p, o) ==
    UNION {
      IF c.exc \in {"none", "KeyboardInterrupt"} THEN {c}
      ELSE {Outcome(k.prov, k.os, c.cmds \o k.cmds,
                    IF k.exc # "none" THEN k.exc ELSE c.exc, None)
            : k \in BtrfsClearSnapshot(c.prov, c.os)}
      : c \in BtrfsCreateSnapshot(p, o)}

\* ---- Snapshot ----
SnapshotEnter(p, o, e) ==
    CASE p.kind = "directory" -> DirEnter(p, o)
      [] p.kind = "zfs"       -> ZfsEnter(p, o, e)
      [] p.kind = "btrfs"     -> BtrfsEnter(p, o)

SnapshotExit(p, o) ==
    CASE p.kind = "directory" -> DirExit(p, o)
      [] p.kind = "zfs"       -> ZfsClearSnapshot(p, o)
      [] p.kind = "btrfs"     -> BtrfsClearSnapshot(p, o)

NoArchive == [archive_path |-> None, tmpdir |-> None]

(***************************************************************************)
(* The archive handler (archive.py).  The archive file lives in its        *)
(* scratch directory and is named by it.                                   *)
(***************************************************************************)
ArchOutcome(a, o, cmds, exc, path) ==
    [arch |-> a, os |-> o, cmds |-> cmds, exc |-> exc, path |-> path]

\* create_archive past its first test
ArchiveCreateNew(a, o) ==
    LET t == FreshId(o.tmpdirs)
        a1 == [a EXCEPT !.tmpdir = Some(t), !.archive_path = Some(t)]
        o1 == [o EXCEPT !.tmpdirs = @ \cup {t}]
        o2 == [o1 EXCEPT !.files = @ \cup {t}]
    IN  {ArchOutcome(a, o, <<>>, "RuntimeError", None)}
        \cup {ArchOutcome(a1, o2,
                          <<Cmd("mkdtemp", t, TRUE), Cmd("archiver", t, TRUE)>>,
                          "none", Some(t))}
        \cup {ArchOutcome(a1, ox,
                          <<Cmd("mkdtemp", t, TRUE), Cmd("archiver", t, FALSE)>>,
                          ExcOf(x), None)
              : x \in {"fail", "interrupt"}, ox \in {o1, o2}}

\* create_archive without its first test (the archive exists)
ArchiveCreate_Always(a, o) == ArchiveCreateNew(a, o)

\* create_archive of _Tar, _Sevenz and _Rar: the cached path if the archive
\* exists; else a failure before any filesystem work (the tool is missing,
\* no workspace has room), or mkdtemp and the archiver, which may leave a
\* partial file behind when it does not end well.
ArchiveCreate(a, o) ==
    IF ~IsNone(a.archive_path) /\ Get(a.archive_path) \in o.files
    THEN {ArchOutcome(a, o, <<>>, "none", a.archive_path)}
    ELSE ArchiveCreateNew(a, o)

\* clean_archive: unlink the archive if it exists, rmtree the scratch
\* directory if it exists; an error of either is raised; archive_path is
\* reset, tmpdir is not.
ArchiveClean(a, o) ==
    LET hasFile == ~IsNone(a.archive_path) /\ Get(a.archive_path) \in o.files
        hasDir == ~IsNone(a.tmpdir) /\ Get(a.tmpdir) \in o.tmpdirs
        c1 == IF hasFile THEN <<Cmd("rm archive", Get(a.archive_path), TRUE)>>
              ELSE <<>>
        o1 == IF hasFile THEN [o EXCEPT !.files = @ \ {Get(a.archive_path)}]
              ELSE o
        c2 == IF hasDir THEN <<Cmd("rmtree", Get(a.tmpdir), TRUE)>> ELSE <<>>
        o2 == IF hasDir THEN [o1 EXCEPT !.tmpdirs = @ \ {Get(a.tmpdir)}] ELSE o1
    IN  {ArchOutcome([a EXCEPT !.archive_path = None], o2, c1 \o c2, "none", None)}
        \cup (IF hasFile
              THEN {ArchOutcome(a, o,
                                <<Cmd("rm archive", Get(a.archive_path), FALSE)>>,
                                "OSError", None)}
              ELSE {})
        \cup (IF hasDir
              THEN {ArchOutcome(a, o1,
                                c1 \o <<Cmd("rmtree", Get(a.tmpdir), FALSE)>>,
                                "OSError", None)}
              ELSE {})

\* __enter__ that lets the error of create_archive through as it is
ArchiveEnter_NoClean(a, o) == ArchiveCreate(a, o)

\* _Archive.__enter__: create_archive, and on an Exception (KeyboardInterrupt
\* is none) clean_archive and raise.
ArchiveEnter(a, o) ==
    UNION {
      IF c.exc \in {"none", "KeyboardInterrupt"} THEN {c}
      ELSE {ArchOutcome(k.arch, k.os, c.cmds \o k.cmds,
                        IF k.exc # "none" THEN k.exc ELSE c.exc, None)
            : k \in ArchiveClean(c.arch, c.os)}
      : c \in ArchiveCreate(a, o)}

\* _Archive.__exit__
ArchiveExit(a, o) == ArchiveClean(a, o)


NoRun == [op |-> "none", n |-> 0]


Now == Instants[clock]

NoCall ==
    [op |-> "none", result |-> "ok", now |-> 0, history |-> <<>>,
     listed |-> 0, ls_ok |-> TRUE, dels |-> {}]

(***************************************************************************)
(* Sync.clean                                                              *)
(***************************************************************************)
Clean ==
    /\ pc = "idle"
    /\ \E g \in GetBackups(backups, FALSE, remote, cfg.name) :
         /\ backups' = g.cache
         /\ IF g.ret = <<>>
            THEN /\ remote' = remote
                 /\ last' = [NoCall EXCEPT !.op = "clean", !.now = Now,
                                           !.listed = g.listed,
                                           !.ls_ok = g.ls_ok]
            ELSE \E r \in RemoveRuns(ToRemove(g.ret, Now, cfg.timeline), remote,
                                     env.flaky) :
                   /\ remote' = {o \in remote : ObjPath(o) \notin r.removed}
                   /\ last' = [op |-> "clean",
                               result |-> IF r.raised THEN "CalledProcessError"
                                          ELSE "ok",
                               now |-> Now, history |-> g.ret,
                               listed |-> g.listed, ls_ok |-> g.ls_ok,
                               dels |-> r.dels]
    /\ UNCHANGED <<cfg, clock, new_backup, env, pc, prov, arch, os, run>>

(***************************************************************************)
(* The retention pass on its own: any history among the first instants,    *)
(* any policy.                                                             *)
(***************************************************************************)
TargetName == "t1"

MinAges == {0, 81000, 100000}

Timelines ==
    [min_age : MinAges, limit_hourly : Limits, limit_daily : Limits,
     limit_weekly : Limits, limit_monthly : Limits, limit_yearly : Limits]

BaseConfig ==
    [name |-> TargetName, src_type |-> "directory", dst_type |-> "rclone",
     archive_enable |-> FALSE, server_side_copy |-> FALSE,
     use_trash |-> FALSE,
     timeline |-> [min_age |-> 0, limit_hourly |-> 1, limit_daily |-> 1,
                   limit_weekly |-> 0, limit_monthly |-> 1, limit_yearly |-> 1]]

\* Objects that may be on the remote when the clock shows instant c:
\* a directory backup per past instant, and an archive taken at the same
\* second as the directory backup of instant 2.
PastObjects(c) ==
    {Object(TargetName, Instants[i], "", TRUE) : i \in 1..c}
    \cup (IF c >= 2 THEN {Object(TargetName, Instants[2], ".tar", FALSE)} ELSE {})

InitRetention ==
    /\ cfg \in {[BaseConfig EXCEPT !.timeline = t] : t \in Timelines}
    /\ clock = NumInstants
    /\ remote \in SUBSET PastObjects(clock)
    /\ backups = None
    /\ new_backup = None
    /\ last = NoCall
    /\ env = [flaky |-> FALSE, is_root |-> TRUE, mountpoint_known |-> TRUE,
              calls |-> 0]
    /\ pc = "idle"
    /\ prov = NoProvider
    /\ arch = NoArchive
    /\ os = EmptyOs
    /\ run = NoRun

NextRetention == Clean

SpecRetention == InitRetention /\ [][NextRetention]_vars


(***************************************************************************)
(* The kept set as section 4.4 of the specification words it.              *)
(***************************************************************************)
GraceSet(h, now, min_age) == {b \in Range(h) : now - b.time < min_age}

\* positions of the records outside the grace window
Bucketed(h, now, min_age) == {i \in 1..Len(h) : ~(now - h[i].time < min_age)}

\* the bucket keys a tier has
KeysOf(h, now, min_age, tier) ==
    {BucketKey(tier, h[i].time) : i \in Bucketed(h, now, min_age)}

\* the representative of a bucket: its earliest record (of several records
\* of that same second, the one met first)
Representative(h, now, min_age, tier, key) ==
    LET members == {i \in Bucketed(h, now, min_age) :
                      BucketKey(tier, h[i].time) = key}
        first == CHOOSE i \in members :
                   \A j \in members :
                      \/ h[i].time < h[j].time
                      \/ (h[i].time = h[j].time /\ i <= j)
    IN  h[first]

\* the keys of the limit most recent periods
RecentKeys(keys, limit) ==
    {k \in keys : Cardinality({x \in keys : x > k}) < limit}

KeptSet(h, now, timeline) ==
    GraceSet(h, now, timeline.min_age)
    \cup UNION {{Representative(h, now, timeline.min_age, tier, k) :
                   k \in RecentKeys(KeysOf(h, now, timeline.min_age, tier),
                                    timeline[tier])} : tier \in TierSet}

CleanRan == last.op = "clean" /\ last.history # <<>>

\* C1: clean() over a non-empty history issues a remote delete only for
\* records outside the kept set (the grace window united with the five
\* tiers' kept representatives), each with the command of the record's
\* kind, and when it returns normally it has issued one for every record
\* outside the kept set and those records are gone from the remote.
C1_CleanDeletesComplementOfKept ==
    CleanRan =>
        LET h == last.history
            kept == KeptSet(h, last.now, cfg.timeline)
            discarded == {b \in Range(h) : b \notin kept}
        IN  /\ \A d \in last.dels :
                 \E b \in discarded :
                    d.path = b.path /\ d.cmd = (IF b.is_dir THEN "purge" ELSE "delete")
            /\ \A b \in kept : \A d \in last.dels : d.path # b.path
            /\ last.result = "ok" =>
                 \A b \in discarded :
                    /\ \E d \in last.dels : d.path = b.path /\ d.ok
                    /\ ~OnRemote(b, remote)

\* C1 witness: a clean that returned normally, deleted at least two records
\* and kept at least two, one of them for the grace window and one as a
\* tier representative.
C1_Witness ==
    /\ CleanRan
    /\ last.result = "ok"
    /\ Cardinality(last.dels) >= 2
    /\ \E b \in Range(last.history) :
          /\ InGrace(b, last.now, cfg.timeline.min_age)
          /\ OnRemote(b, remote)
    /\ \E b \in Range(last.history) :
          /\ ~InGrace(b, last.now, cfg.timeline.min_age)
          /\ OnRemote(b, remote)

\* C2: in clean(), a record younger than min_age is never deleted, whatever
\* the five limits are, and is never a bucket representative of any tier;
\* the buckets are those of the history without the grace-window records.
C2_GraceKeptAndNotBucketed ==
    CleanRan =>
        LET h == last.history
            ma == cfg.timeline.min_age
            g == Grouping(h, last.now, ma)
            old == SelectSeq(h, LAMBDA b : ~(last.now - b.time < ma))
        IN  /\ \A b \in Range(h) :
                 (last.now - b.time < ma) =>
                    /\ \A d \in last.dels : d.path # b.path
                    /\ \A tier \in TierSet : \A k \in DOMAIN g[tier] :
                          ~BackupEq(g[tier][k], b)
            /\ \A tier \in TierSet :
                 /\ DOMAIN g[tier] = {BucketKey(tier, b.time) : b \in Range(old)}
                 /\ \A k \in DOMAIN g[tier] :
                       g[tier][k] = Representative(old, last.now, 0, tier, k)

\* C2 witness: a clean with all five limits 0 that deleted a record and left
\* a grace-window record on the remote.
C2_Witness ==
    /\ CleanRan
    /\ last.result = "ok"
    /\ \A tier \in TierSet : cfg.timeline[tier] = 0
    /\ last.dels # {}
    /\ \E b \in Range(last.history) :
          /\ InGrace(b, last.now, cfg.timeline.min_age)
          /\ OnRemote(b, remote)


(***************************************************************************)
(* A snapshot handler on its own: acquire (__enter__) and release          *)
(* (__exit__) called in any order on one handler.                          *)
(***************************************************************************)
MaxLive == 2

\* the backup() calls made on one Sync object
MaxRuns == 1

\* The machines a ZFS source is met on: the dataset has a mountpoint, or
\* the snapshot must be mounted by hand, as root or not.
Machines(kind) ==
    IF kind = "zfs"
    THEN {[flaky |-> TRUE, is_root |-> r, mountpoint_known |-> m,
           calls |-> MaxRuns] : r \in BOOLEAN, m \in BOOLEAN}
         \ {[flaky |-> TRUE, is_root |-> FALSE, mountpoint_known |-> TRUE,
             calls |-> MaxRuns]}
    ELSE {[flaky |-> TRUE, is_root |-> TRUE, mountpoint_known |-> TRUE,
           calls |-> MaxRuns]}

SrcTypes == {"directory", "zfs", "btrfs"}

InitSnapshot ==
    /\ cfg \in {[BaseConfig EXCEPT !.src_type = k] : k \in SrcTypes}
    /\ env \in Machines(cfg.src_type)
    /\ prov = Provider(cfg.src_type)
    /\ os = EmptyOs
    /\ run = [op |-> "provider", held |-> None, released |-> FALSE]
    /\ last = NoCall
    /\ pc = "provider"
    /\ clock = 1
    /\ remote = {}
    /\ backups = None
    /\ new_backup = None
    /\ arch = NoArchive

\* Snapshot.__enter__
Acquire ==
    /\ pc = "provider"
    /\ Cardinality(os.snaps) < MaxLive
    /\ Cardinality(os.dirs) < MaxLive
    /\ \E out \in SnapshotEnter(prov, os, env) :
         /\ prov' = out.prov
         /\ os' = out.os
         /\ last' = [op |-> "acquire", cmds |-> out.cmds, exc |-> out.exc,
                     path |-> out.path, held_before |-> run.held,
                     os_before |-> os]
         /\ run' = [run EXCEPT !.held = IF out.exc = "none" THEN out.path ELSE None,
                               !.released = FALSE]
    /\ UNCHANGED <<cfg, clock, remote, backups, new_backup, env, pc, arch>>

\* Snapshot.__exit__
Release ==
    /\ pc = "provider"
    /\ \E out \in SnapshotExit(prov, os) :
         /\ prov' = out.prov
         /\ os' = out.os
         /\ last' = [op |-> "release", cmds |-> out.cmds, exc |-> out.exc,
                     released_before |-> run.released, os_before |-> os]
         /\ run' = [run EXCEPT !.held = None, !.released = (out.exc = "none")]
    /\ UNCHANGED <<cfg, clock, remote, backups, new_backup, env, pc, arch>>

NextSnapshot == Acquire \/ Release

SpecSnapshot == InitSnapshot /\ [][NextSnapshot]_vars

CleanupFailed(cmds) ==
    \E i \in 1..Len(cmds) :
       /\ cmds[i].tool \in {"zfs destroy", "umount", "btrfs delete",
                            "rm archive", "rmtree"}
       /\ ~cmds[i].ok

Issued(cmds, tool) == {i \in 1..Len(cmds) : cmds[i].tool = tool}

\* C7: a ZFS acquire that created the snapshot and then failed with an
\* exception (no privilege for the mount, or the mount command failed) has
\* reversed every side effect when the error reaches the caller, provided
\* its own cleanup commands succeeded: the snapshot is destroyed and the
\* scratch mount directory does not exist.
C7_FailedAcquireReversed ==
    (/\ last.op = "acquire"
     /\ cfg.src_type = "zfs"
     /\ last.exc \in {"PermissionError", "CalledProcessError"}
     /\ \E i \in Issued(last.cmds, "zfs snapshot") : last.cmds[i].ok
     /\ ~CleanupFailed(last.cmds))
    => (os.snaps = last.os_before.snaps /\ os.dirs = last.os_before.dirs)

\* C8: a release that follows a successful release on the same handler
\* issues no external command and raises nothing.
C8_SecondReleaseIsNoOp ==
    (last.op = "release" /\ last.released_before)
    => (last.cmds = <<>> /\ last.exc = "none" /\ os = last.os_before)

\* C9: an acquire called while the handler holds a snapshot returns the
\* path of the first acquire, issues no command and creates no snapshot,
\* no mount and no directory.
C9_ReacquireReturnsHeld ==
    (last.op = "acquire" /\ ~IsNone(last.held_before))
    => /\ last.exc = "none"
       /\ last.path = last.held_before
       /\ last.cmds = <<>>
       /\ os = last.os_before

\* C9 witness: a second acquire on a ZFS handler that holds a snapshot it
\* mounted by hand.
C9_Witness ==
    /\ last.op = "acquire"
    /\ ~IsNone(last.held_before)
    /\ prov.kind = "zfs"
    /\ prov.manual_mount_flag
    /\ os.snaps # {}
    /\ os.mounts # {}

(***************************************************************************)
(* The Sync engine: backup() in the steps of its with-statement, undo(),   *)
(* get_backups() and clean() called in any order on one Sync object.       *)
(***************************************************************************)
\* the instants the clock of the engine runs through
MaxClock == 2

Idle(n) == [op |-> "none", n |-> n]

\* The record backup() builds for the run started at time t, and the object
\* its upload creates.
NewBackup(c, t) ==
    IF c.archive_enable
    THEN MkBackup(t, <<c.name, t, ".tar">>, FALSE)
    ELSE MkBackup(t, <<c.name, t, "">>, TRUE)

NewObject(c, t) ==
    IF c.archive_enable
    THEN Object(c.name, t, ".tar", FALSE)
    ELSE Object(c.name, t, "", TRUE)

\* the new record put in front of the cached history
Appended_Front(cache, b) ==
    IF IsNone(cache) THEN cache ELSE Some(<<b>> \o Get(cache))

\* an append that loads an unloaded cache with the new record
Appended_Always(cache, b) ==
    IF IsNone(cache) THEN Some(<<b>>) ELSE Some(Append(Get(cache), b))

\* self._backups.append(new_backup), if the cache is loaded
Appended(cache, b) == IF IsNone(cache) THEN cache ELSE Some(Append(Get(cache), b))

\* The remote after a command that was to create object obj ended: there if
\* it ended well, there or not if it did not.
AfterTransfer(objs, obj, ending) ==
    IF ending = "ok" THEN {objs \cup {obj}} ELSE {objs, objs \cup {obj}}

\* undo() with an in-flight record without its first test: list the remote
\* (force chooses whether the cache is bypassed), remove the record if it is
\* listed and forget it; if it is not listed, return.
UndoInFlight(nb, cache, force, objs, name, flaky) ==
    UNION {
      IF ~BackupIn(Get(nb), Range(g.ret))
      THEN {[new_backup |-> nb, cache |-> g.cache, removed |-> {}, dels |-> {},
             listed |-> g.listed, ls_ok |-> g.ls_ok, result |-> "ok"]}
      ELSE {[new_backup |-> IF r.raised THEN nb ELSE None, cache |-> g.cache,
             removed |-> r.removed, dels |-> r.dels, listed |-> g.listed,
             ls_ok |-> g.ls_ok,
             result |-> IF r.raised THEN "CalledProcessError" ELSE "ok"]
            : r \in RemoveRuns({Get(nb)}, objs, flaky)}
      : g \in GetBackups(cache, force, objs, name)}

\* undo() that lists the remote before it looks at new_backup
UndoOutcomes_ListFirst(nb, cache, objs, name, flaky) ==
    IF IsNone(nb)
    THEN {[new_backup |-> nb, cache |-> g.cache, removed |-> {}, dels |-> {},
           listed |-> g.listed, ls_ok |-> g.ls_ok, result |-> "ok"]
          : g \in GetBackups(cache, TRUE, objs, name)}
    ELSE UndoInFlight(nb, cache, TRUE, objs, name, flaky)

\* undo() that trusts the cached history
UndoOutcomes_Cached(nb, cache, objs, name, flaky) ==
    IF IsNone(nb)
    THEN {[new_backup |-> nb, cache |-> cache, removed |-> {}, dels |-> {},
           listed |-> 0, ls_ok |-> TRUE, result |-> "ok"]}
    ELSE UndoInFlight(nb, cache, FALSE, objs, name, flaky)

\* Sync.undo
UndoOutcomes(nb, cache, objs, name, flaky) ==
    IF IsNone(nb)
    THEN {[new_backup |-> nb, cache |-> cache, removed |-> {}, dels |-> {},
           listed |-> 0, ls_ok |-> TRUE, result |-> "ok"]}
    ELSE UndoInFlight(nb, cache, TRUE, objs, name, flaky)

Undo ==
    /\ pc = "idle"
    /\ \E u \in UndoOutcomes(new_backup, backups, remote, cfg.name, env.flaky) :
         /\ new_backup' = u.new_backup
         /\ backups' = u.cache
         /\ remote' = {o \in remote : ObjPath(o) \notin u.removed}
         /\ last' = [op |-> "undo", result |-> u.result, listed |-> u.listed,
                     ls_ok |-> u.ls_ok, dels |-> u.dels, pre_new_backup |-> new_backup,
                     pre_backups |-> backups, pre_remote |-> remote]
    /\ UNCHANGED <<cfg, clock, env, pc, prov, arch, os, run>>

\* Sync.get_backups called by the user of the object
GetBackupsCall ==
    /\ pc = "idle"
    /\ \E force \in BOOLEAN :
         \E g \in GetBackups(backups, force, remote, cfg.name) :
            /\ backups' = g.cache
            /\ last' = [op |-> "get_backups", result |-> "ok", ret |-> g.ret,
                        listed |-> g.listed, ls_ok |-> g.ls_ok,
                        force |-> force,
                        pre_backups |-> backups]
    /\ UNCHANGED <<cfg, clock, remote, new_backup, env, pc, prov, arch, os, run>>

\* Time passes between two calls.
Tick ==
    /\ pc = "idle"
    /\ clock < MaxClock
    /\ clock' = clock + 1
    /\ UNCHANGED <<cfg, remote, backups, new_backup, last, env, pc, prov, arch,
                   os, run>>

\* What backup() leaves in `last` when it hands control back.
BackupDone(result, cmds, reached) ==
    [op |-> "backup", result |-> result, cmds |-> cmds, time |-> run.time,
     os_before |-> run.os_before, reached |-> reached]

\* backup() that goes on to the with-statement whatever the destination type
BackupStart_NoKindTest ==
    /\ pc = "idle"
    /\ run.n < env.calls
    /\ last' = [op |-> "backup", result |-> "running", cmds |-> <<>>,
                time |-> Now, os_before |-> os, reached |-> FALSE]
    /\ run' = [op |-> "backup", n |-> run.n + 1, time |-> Now,
               cmds |-> <<>>, exc |-> "none", os_before |-> os,
               reached |-> FALSE]
    /\ pc' = "snapshot"
    /\ prov' = Provider(cfg.src_type)
    /\ arch' = NoArchive
    /\ UNCHANGED <<cfg, clock, remote, backups, new_backup, env, os>>

\* backup() up to the with-statement: the timestamp, the destination type.
BackupStart ==
    /\ pc = "idle"
    /\ run.n < env.calls
    /\ IF cfg.dst_type # "rclone"
       THEN /\ last' = [op |-> "backup", result |-> "NotImplementedError",
                        cmds |-> <<>>, time |-> Now, os_before |-> os,
                        reached |-> FALSE]
            /\ run' = Idle(run.n + 1)
            /\ UNCHANGED <<pc, prov, arch>>
       ELSE /\ last' = [op |-> "backup", result |-> "running", cmds |-> <<>>,
                        time |-> Now, os_before |-> os, reached |-> FALSE]
            /\ run' = [op |-> "backup", n |-> run.n + 1, time |-> Now,
                       cmds |-> <<>>, exc |-> "none", os_before |-> os,
                       reached |-> FALSE]
            /\ pc' = "snapshot"
            /\ prov' = Provider(cfg.src_type)
            /\ arch' = NoArchive
    /\ UNCHANGED <<cfg, clock, remote, backups, new_backup, env, os>>

\* Snapshot(...).__enter__ of the with-statement
BackupSnapshot ==
    /\ pc = "snapshot"
    /\ \E out \in SnapshotEnter(prov, os, env) :
         /\ prov' = out.prov
         /\ os' = out.os
         /\ IF out.exc = "none"
            THEN /\ pc' = IF cfg.archive_enable THEN "archive"
                          ELSE IF cfg.server_side_copy THEN "copy" ELSE "upload"
                 /\ run' = [run EXCEPT !.cmds = @ \o out.cmds]
                 /\ last' = last
            ELSE /\ pc' = "idle"
                 /\ last' = BackupDone(out.exc, run.cmds \o out.cmds, FALSE)
                 /\ run' = Idle(run.n)
    /\ UNCHANGED <<cfg, clock, remote, backups, new_backup, env, arch>>

\* Archive(...).__enter__ of the with-statement; if it raises, the snapshot
\* is released and the archive's __exit__ is not run.
BackupArchive ==
    /\ pc = "archive"
    /\ \E out \in ArchiveEnter(arch, os) :
         /\ arch' = out.arch
         /\ os' = out.os
         /\ run' = [run EXCEPT !.cmds = @ \o out.cmds, !.exc = out.exc]
         /\ pc' = IF out.exc = "none" THEN "upload" ELSE "exit_snapshot"
    /\ UNCHANGED <<cfg, clock, remote, backups, new_backup, last, env, prov>>

\* the newest directory-kind record of a history (the first one met from
\* the end of the list), if there is one
LatestDir(h) ==
    LET dirs == {i \in 1..Len(h) : h[i].is_dir}
    IN  IF dirs = {} THEN None
        ELSE Some(h[CHOOSE i \in dirs : \A j \in dirs : j <= i])

CopyCmd(from, to, ok) == Cmd("rclone copy", <<from.path, to.path>>, ok)
SyncCmd(to, ok) == Cmd("rclone sync", to.path, ok)

\* a server-side copy whose failure is logged and passed over
BackupCopy_BestEffort ==
    /\ pc = "copy"
    /\ new_backup' = Some(NewBackup(cfg, run.time))
    /\ \E g \in GetBackups(backups, FALSE, remote, cfg.name) :
         /\ backups' = g.cache
         /\ IF IsNone(LatestDir(g.ret))
            THEN /\ remote' = remote
                 /\ run' = [run EXCEPT !.reached = TRUE]
            ELSE LET latest == Get(LatestDir(g.ret))
                 IN  \E e \in {x \in Endings :
                                 x = "ok" => OnRemote(latest, remote)} :
                        /\ remote' \in AfterTransfer(
                                         remote, NewObject(cfg, run.time), e)
                        /\ run' = [run EXCEPT
                                     !.reached = TRUE,
                                     !.cmds = @ \o <<CopyCmd(
                                                latest, NewBackup(cfg, run.time),
                                                e = "ok")>>]
    /\ pc' = "upload"
    /\ UNCHANGED <<cfg, clock, last, env, prov, arch, os>>

\* _backup_dir with server_side_copy: new_backup is set, then
\* _server_side_copy copies the newest directory backup of the history.
BackupCopy ==
    /\ pc = "copy"
    /\ new_backup' = Some(NewBackup(cfg, run.time))
    /\ \E g \in GetBackups(backups, FALSE, remote, cfg.name) :
         /\ backups' = g.cache
         /\ IF IsNone(LatestDir(g.ret))
            THEN /\ remote' = remote
                 /\ pc' = "upload"
                 /\ run' = [run EXCEPT !.reached = TRUE]
            ELSE LET latest == Get(LatestDir(g.ret))
                 IN  \E e \in {x \in Endings :
                                 x = "ok" => OnRemote(latest, remote)} :
                        /\ remote' \in AfterTransfer(
                                         remote, NewObject(cfg, run.time), e)
                        /\ pc' = IF e = "ok" THEN "upload" ELSE "exit_snapshot"
                        /\ run' = [run EXCEPT
                                     !.reached = TRUE,
                                     !.cmds = @ \o <<CopyCmd(
                                                latest, NewBackup(cfg, run.time),
                                                e = "ok")>>,
                                     !.exc = IF e = "ok" THEN "none" ELSE ExcOf(e)]
    /\ UNCHANGED <<cfg, clock, last, env, prov, arch, os>>

\* the upload outside any with-statement: an upload that raises hands
\* control back at once
BackupUpload_Unscoped ==
    /\ pc = "upload"
    /\ new_backup' = Some(NewBackup(cfg, run.time))
    /\ \E e \in Endings :
         /\ remote' \in AfterTransfer(remote, NewObject(cfg, run.time), e)
         /\ backups' = IF e = "ok" THEN Appended(backups, NewBackup(cfg, run.time))
                       ELSE backups
         /\ IF e = "ok"
            THEN /\ run' = [run EXCEPT
                              !.reached = TRUE,
                              !.cmds = @ \o <<SyncCmd(NewBackup(cfg, run.time),
                                                      TRUE)>>]
                 /\ pc' = IF cfg.archive_enable THEN "exit_archive"
                          ELSE "exit_snapshot"
                 /\ last' = last
            ELSE /\ run' = Idle(run.n)
                 /\ pc' = "idle"
                 /\ last' = BackupDone(
                              ExcOf(e),
                              run.cmds \o <<SyncCmd(NewBackup(cfg, run.time),
                                                    FALSE)>>,
                              TRUE)
    /\ UNCHANGED <<cfg, clock, env, prov, arch, os>>

\* new_backup is set, the upload runs, and the record is appended to the
\* cached history if the upload returned.
BackupUpload ==
    /\ pc = "upload"
    /\ new_backup' = Some(NewBackup(cfg, run.time))
    /\ \E e \in Endings :
         /\ remote' \in AfterTransfer(remote, NewObject(cfg, run.time), e)
         /\ backups' = IF e = "ok" THEN Appended(backups, NewBackup(cfg, run.time))
                       ELSE backups
         /\ run' = [run EXCEPT !.reached = TRUE,
                               !.cmds = @ \o <<SyncCmd(NewBackup(cfg, run.time),
                                                       e = "ok")>>,
                               !.exc = IF e = "ok" THEN "none" ELSE ExcOf(e)]
    /\ pc' = IF cfg.archive_enable THEN "exit_archive" ELSE "exit_snapshot"
    /\ UNCHANGED <<cfg, clock, last, env, prov, arch, os>>

\* an Archive.__exit__ that hands control back at once when it raises
BackupExitArchive_Unscoped ==
    /\ pc = "exit_archive"
    /\ \E out \in ArchiveExit(arch, os) :
         /\ arch' = out.arch
         /\ os' = out.os
         /\ IF out.exc = "none"
            THEN /\ run' = [run EXCEPT !.cmds = @ \o out.cmds]
                 /\ pc' = "exit_snapshot"
                 /\ last' = last
            ELSE /\ run' = Idle(run.n)
                 /\ pc' = "idle"
                 /\ last' = BackupDone(out.exc, run.cmds \o out.cmds, run.reached)
    /\ UNCHANGED <<cfg, clock, remote, backups, new_backup, env, prov>>

\* Archive.__exit__; an exception of it replaces the one in flight.
BackupExitArchive ==
    /\ pc = "exit_archive"
    /\ \E out \in ArchiveExit(arch, os) :
         /\ arch' = out.arch
         /\ os' = out.os
         /\ run' = [run EXCEPT !.cmds = @ \o out.cmds,
                               !.exc = IF out.exc # "none" THEN out.exc ELSE @]
    /\ pc' = "exit_snapshot"
    /\ UNCHANGED <<cfg, clock, remote, backups, new_backup, last, env, prov>>

\* Snapshot.__exit__, and backup() hands control back.
BackupExitSnapshot ==
    /\ pc = "exit_snapshot"
    /\ \E out \in SnapshotExit(prov, os) :
         /\ prov' = out.prov
         /\ os' = out.os
         /\ last' = BackupDone(IF out.exc # "none" THEN out.exc
                               ELSE IF run.exc # "none" THEN run.exc ELSE "ok",
                               run.cmds \o out.cmds, run.reached)
    /\ pc' = "idle"
    /\ run' = Idle(run.n)
    /\ UNCHANGED <<cfg, clock, remote, backups, new_backup, env, arch>>

DstTypes == {"directory", "rclone", "zfs", "btrfs"}

\* The configurations: every source type with an archive, a directory and a
\* directory with server-side copy, and the destinations that are not rclone.
SyncConfigs ==
    {[BaseConfig EXCEPT !.src_type = k, !.archive_enable = m[1],
                        !.server_side_copy = m[2]]
       : k \in SrcTypes,
         m \in {<<TRUE, FALSE>>, <<FALSE, FALSE>>, <<FALSE, TRUE>>}}
    \cup {[BaseConfig EXCEPT !.dst_type = d] : d \in DstTypes \ {"rclone"}}

Init ==
    /\ cfg \in SyncConfigs
    /\ env \in Machines(cfg.src_type)
    /\ clock = 1
    /\ remote \in SUBSET PastObjects(1)
    /\ backups = None
    /\ new_backup = None
    /\ last = NoCall
    /\ pc = "idle"
    /\ prov = NoProvider
    /\ arch = NoArchive
    /\ os = EmptyOs
    /\ run = NoRun

Next ==
    \/ Tick
    \/ GetBackupsCall
    \/ Clean
    \/ Undo
    \/ BackupStart
    \/ BackupSnapshot
    \/ BackupArchive
    \/ BackupCopy
    \/ BackupUpload
    \/ BackupExitArchive
    \/ BackupExitSnapshot

Spec == Init /\ [][Next]_vars


FailedAmong(cmds, tools) ==
    \E i \in 1..Len(cmds) : cmds[i].tool \in tools /\ ~cmds[i].ok

\* C3: undo() called with new_backup unset lists nothing, deletes nothing,
\* returns normally and leaves the cached history, the in-flight reference
\* and the remote as they were.
C3_UndoWithoutInFlightIsNoOp ==
    (last.op = "undo" /\ IsNone(last.pre_new_backup))
    => /\ last.listed = 0
       /\ last.dels = {}
       /\ last.result = "ok"
       /\ backups = last.pre_backups
       /\ IsNone(new_backup)
       /\ remote = last.pre_remote

\* C3 witness: such an undo() on an object whose history is cached, with
\* records on the remote, after a backup() that ended before its transfer.
C3_Witness ==
    /\ last.op = "undo"
    /\ IsNone(last.pre_new_backup)
    /\ ~IsNone(backups)
    /\ remote # {}
    /\ run.n >= 1

\* C4: undo() called with a backup in flight lists the remote whatever the
\* cache holds, issues at most one delete, only if the fresh listing holds
\* the in-flight record, on that record's path, purge for a directory and
\* delete for a file; every other object of the remote stays.
C4_UndoListsFreshAndDeletesOnlyInFlight ==
    (last.op = "undo" /\ ~IsNone(last.pre_new_backup))
    => LET nb == Get(last.pre_new_backup)
       IN  /\ last.listed = 1
           /\ Cardinality(last.dels) <= 1
           /\ \A d \in last.dels :
                 /\ d.path = nb.path
                 /\ d.cmd = IF nb.is_dir THEN "purge" ELSE "delete"
           /\ last.dels # {}
                 => BackupIn(nb, ParseListing(last.pre_remote, cfg.name))
           /\ remote \subseteq last.pre_remote
           /\ \A o \in last.pre_remote : ObjPath(o) # nb.path => o \in remote

\* C4 witness: the cached history does not hold the in-flight record, the
\* remote does; undo() deleted it and another record is still there.
C4_Witness ==
    /\ last.op = "undo"
    /\ ~IsNone(last.pre_new_backup)
    /\ ~IsNone(last.pre_backups)
    /\ ~BackupIn(Get(last.pre_new_backup), Range(Get(last.pre_backups)))
    /\ \E d \in last.dels : d.ok
    /\ remote # {}
    /\ remote # last.pre_remote

\* C5: when undo() has returned, no backup is tracked as in flight.
C5_UndoClearsInFlight ==
    (last.op = "undo" /\ last.result = "ok") => IsNone(new_backup)

\* C6: when backup() hands control back after a run that reached its
\* transfer step, whether the transfer returned or raised, no snapshot,
\* mount or mount directory of the run is left unless a release command of
\* the snapshot failed, and no archive file or scratch directory of the run
\* is left unless a removal of the archive failed.
C6_ReleasedAfterTransfer ==
    (last.op = "backup" /\ last.result # "running" /\ last.reached)
    => /\ ~FailedAmong(last.cmds, {"zfs destroy", "umount", "btrfs delete"})
            => /\ os.snaps = last.os_before.snaps
               /\ os.mounts = last.os_before.mounts
               /\ os.dirs = last.os_before.dirs
       /\ ~FailedAmong(last.cmds, {"rm archive", "rmtree"})
            => /\ os.files = last.os_before.files
               /\ os.tmpdirs = last.os_before.tmpdirs

\* C6 witness: a run on a ZFS source that mounted its snapshot by hand and
\* built an archive, whose upload raised, and that left nothing behind.
C6_Witness ==
    /\ last.op = "backup"
    /\ last.reached
    /\ last.result \in {"CalledProcessError", "KeyboardInterrupt"}
    /\ \E i \in Issued(last.cmds, "mount") : last.cmds[i].ok
    /\ \E i \in Issued(last.cmds, "archiver") : last.cmds[i].ok
    /\ Issued(last.cmds, "zfs destroy") # {}
    /\ Issued(last.cmds, "rmtree") # {}
    /\ os = last.os_before

\* C10: a backup() that ended with KeyboardInterrupt leaves behind what one
\* that ended with an ordinary exception leaves: nothing, if no cleanup
\* command failed.
C10_InterruptReleasesLikeException ==
    (/\ last.op = "backup"
     /\ last.result = "KeyboardInterrupt"
     /\ ~CleanupFailed(last.cmds))
    => os = last.os_before


\* C11: a backup() on a destination whose type is not rclone ends with
\* NotImplementedError in its first step: no handler is entered, no command
\* runs, and the remote, the in-flight record, the cached history and the
\* operating system are as they were.
C11_UnsupportedDestinationRejected ==
    [][(pc = "idle" /\ last'.op = "backup" /\ last' # last
        /\ cfg.dst_type # "rclone")
       => /\ last'.result = "NotImplementedError"
          /\ last'.cmds = <<>>
          /\ pc' = "idle"
          /\ UNCHANGED <<remote, new_backup, backups, os, prov, arch>>]_vars

\* C11 witness: such a backup() on an object whose history is cached, with
\* records on the remote.
C11_Witness ==
    /\ last.op = "backup"
    /\ last.result = "NotImplementedError"
    /\ cfg.dst_type \in {"directory", "zfs", "btrfs"}
    /\ ~IsNone(backups)
    /\ remote # {}
    /\ pc = "idle"


\* The cache after the upload step of a run, by the rule "append if the
\* upload returned and a history is loaded".
AppendRule(cache, uploaded, b) ==
    IF uploaded /\ ~IsNone(cache) THEN Some(Append(Get(cache), b)) ELSE cache

\* C12 as stated: in every step of backup() the cached history is left as
\* it is, except that the upload step appends the new record when the upload
\* returned and a history is loaded; an unloaded cache stays unloaded, and a
\* failed server-side copy or upload leaves the cache unchanged.
C12_CacheChangesOnlyByAppend ==
    [][(pc # "idle" \/ pc' # "idle")
       => backups' = IF pc = "upload"
                     THEN AppendRule(backups, run'.exc = "none",
                                     NewBackup(cfg, run.time))
                     ELSE backups]_vars

\* C12 amended: the upload step appends the new record exactly when the
\* upload returned and a history is loaded at that moment; the server-side
\* copy step leaves a loaded cache as it is and may load an unloaded cache
\* with the sorted listing of the remote, whether the copy then succeeds or
\* fails; every other step of backup() leaves the cache unchanged.
C12_AppendOrLoadedByCopy ==
    [][(pc # "idle" \/ pc' # "idle")
       => CASE pc = "upload" ->
                 backups' = AppendRule(backups, run'.exc = "none",
                                       NewBackup(cfg, run.time))
            [] pc = "copy" ->
                 \/ backups' = backups
                 \/ /\ IsNone(backups)
                    /\ \E s \in SortedLists(ParseListing(remote, cfg.name)) :
                          backups' = Some(s)
            [] OTHER -> backups' = backups]_vars

\* C12 witness: a run with server-side copy whose upload returned and whose
\* record was appended behind an older one.
C12_Witness ==
    /\ pc = "exit_snapshot"
    /\ cfg.server_side_copy
    /\ run.reached
    /\ run.exc = "none"
    /\ ~IsNone(backups)
    /\ Len(Get(backups)) >= 2
    /\ Get(backups)[Len(Get(backups))] = NewBackup(cfg, run.time)


Ascending(h) == \A i \in 1..(Len(h) - 1) : h[i].time <= h[i + 1].time

\* C13: the cached history, which is what get_backups() returns, is in
\* ascending order of time after any sequence of calls, also after backup()
\* appended to it; a get_backups() call lists the remote exactly when it is
\* forced or no history is cached, and returns the cached history otherwise.
C13_HistoryAscendingListedWhenDue ==
    /\ ~IsNone(backups) => Ascending(Get(backups))
    /\ last.op = "get_backups"
         => /\ Ascending(last.ret)
            /\ last.listed = 0 <=> (~last.force /\ ~IsNone(last.pre_backups))
            /\ last.listed = 0 => last.ret = Get(last.pre_backups)

\* C13 witness: get_backups() without force answered from a cache to which
\* backup() appended its record behind an older one.
C13_Witness ==
    /\ last.op = "get_backups"
    /\ ~last.force
    /\ last.listed = 0
    /\ Len(last.ret) >= 2
    /\ ~IsNone(new_backup)
    /\ last.ret[Len(last.ret)] = Get(new_backup)
    /\ last.ret[1].time < last.ret[Len(last.ret)].time


\* C15: a get_backups(), clean() or undo() whose listing of the remote
\* failed returns normally, leaves the cached history and the remote as
\* they were and issues no delete; get_backups() returns the empty history.
C15_FailedListingIsEmptyHistory ==
    [][(/\ pc = "idle"
        /\ last' # last
        /\ last'.op \in {"get_backups", "clean", "undo"}
        /\ last'.listed = 1
        /\ ~last'.ls_ok)
       => /\ last'.result = "ok"
          /\ backups' = backups
          /\ remote' = remote
          /\ last'.op = "get_backups" => last'.ret = <<>>
          /\ last'.op \in {"clean", "undo"} => last'.dels = {}]_vars

\* C15 witness: an undo() whose listing failed while the in-flight record
\* is on the remote and a history is cached.
C15_Witness ==
    /\ last.op = "undo"
    /\ last.listed = 1
    /\ ~last.ls_ok
    /\ ~IsNone(last.pre_new_backup)
    /\ OnRemote(Get(last.pre_new_backup), remote)
    /\ ~IsNone(backups)
    /\ Len(Get(backups)) >= 1


(***************************************************************************)
(* backup() called one more time on one target, with nothing else in       *)
(* between, on a remote that starts empty.                                 *)
(***************************************************************************)
InitRuns ==
    /\ cfg \in {c \in SyncConfigs :
                  c.src_type = "directory" /\ c.dst_type = "rclone"}
    /\ env \in {[e EXCEPT !.calls = MaxRuns + 1] : e \in Machines(cfg.src_type)}
    /\ clock = 1
    /\ remote = {}
    /\ backups = None
    /\ new_backup = None
    /\ last = NoCall
    /\ pc = "idle"
    /\ prov = NoProvider
    /\ arch = NoArchive
    /\ os = EmptyOs
    /\ run = NoRun

NextRuns ==
    \/ Tick
    \/ BackupStart
    \/ BackupSnapshot
    \/ BackupArchive
    \/ BackupCopy
    \/ BackupUpload
    \/ BackupExitArchive
    \/ BackupExitSnapshot

SpecRuns == InitRuns /\ [][NextRuns]_vars

\* C17: the destination path of a run is one that no earlier run of the
\* target wrote to: when a run comes to its transfer step, no object of
\* that path is on the remote (which held nothing before the first run).
C17_DestinationPathFresh ==
    (pc \in {"copy", "upload"} /\ ~run.reached)
    => ~OnRemote(NewBackup(cfg, run.time), remote)


(***************************************************************************)
(* An archive handler on its own: create_archive, __enter__ and            *)
(* clean_archive (__exit__) called in any order on one handler.            *)
(***************************************************************************)
InitArchive ==
    /\ cfg = [BaseConfig EXCEPT !.archive_enable = TRUE]
    /\ env \in Machines(cfg.src_type)
    /\ arch = NoArchive
    /\ os = EmptyOs
    /\ run = [op |-> "archive", held |-> None, destroyed |-> FALSE]
    /\ last = NoCall
    /\ pc = "archive_handler"
    /\ clock = 1
    /\ remote = {}
    /\ backups = None
    /\ new_backup = None
    /\ prov = NoProvider

\* create_archive called on the handler
CreateArchive ==
    /\ pc = "archive_handler"
    /\ Cardinality(os.tmpdirs) < MaxLive
    /\ \E out \in ArchiveCreate(arch, os) :
         /\ arch' = out.arch
         /\ os' = out.os
         /\ last' = [op |-> "create", cmds |-> out.cmds, exc |-> out.exc,
                     path |-> out.path, held_before |-> run.held,
                     destroyed_before |-> run.destroyed, arch_before |-> arch,
                     os_before |-> os]
         /\ run' = [run EXCEPT !.held = IF out.exc = "none" THEN out.path
                                        ELSE None,
                               !.destroyed = FALSE]
    /\ UNCHANGED <<cfg, clock, remote, backups, new_backup, env, pc, prov>>

\* Archive.__enter__
EnterArchive ==
    /\ pc = "archive_handler"
    /\ Cardinality(os.tmpdirs) < MaxLive
    /\ \E out \in ArchiveEnter(arch, os) :
         /\ arch' = out.arch
         /\ os' = out.os
         /\ last' = [op |-> "enter", cmds |-> out.cmds, exc |-> out.exc,
                     path |-> out.path, held_before |-> run.held,
                     destroyed_before |-> run.destroyed, arch_before |-> arch,
                     os_before |-> os]
         /\ run' = [run EXCEPT !.held = IF out.exc = "none" THEN out.path
                                        ELSE None,
                               !.destroyed = FALSE]
    /\ UNCHANGED <<cfg, clock, remote, backups, new_backup, env, pc, prov>>

\* Archive.__exit__ / clean_archive
DestroyArchive ==
    /\ pc = "archive_handler"
    /\ \E out \in ArchiveExit(arch, os) :
         /\ arch' = out.arch
         /\ os' = out.os
         /\ last' = [op |-> "destroy", cmds |-> out.cmds, exc |-> out.exc,
                     path |-> None, held_before |-> run.held,
                     destroyed_before |-> run.destroyed, arch_before |-> arch,
                     os_before |-> os]
         /\ run' = [run EXCEPT !.held = None, !.destroyed = (out.exc = "none")]
    /\ UNCHANGED <<cfg, clock, remote, backups, new_backup, env, pc, prov>>

NextArchive == CreateArchive \/ EnterArchive \/ DestroyArchive

SpecArchive == InitArchive /\ [][NextArchive]_vars

\* C18: a create on a handler whose last create returned, with no destroy
\* since, returns the same path, makes no scratch directory, runs no
\* archiver and changes nothing on disk.
C18_SecondCreateReturnsArchive ==
    (last.op \in {"create", "enter"} /\ ~IsNone(last.held_before))
    => /\ last.exc = "none"
       /\ last.path = last.held_before
       /\ last.cmds = <<>>
       /\ os = last.os_before

\* C18 witness: a second create_archive on a handler that holds an archive.
C18_Witness ==
    /\ last.op = "create"
    /\ ~IsNone(last.held_before)
    /\ os.files # {}
    /\ arch.archive_path = last.held_before

\* C19: when __enter__ ends with an exception of create_archive, the handler
\* has run clean_archive and, unless a removal failed, no archive file and
\* no scratch directory of the call is left; a clean_archive on a handler on
\* which nothing was created, or that follows a clean_archive that
\* returned, runs no removal and raises nothing.
C19_FailedCreateIsDestroyed ==
    /\ (/\ last.op = "enter"
        /\ last.exc \notin {"none", "KeyboardInterrupt"}
        /\ ~FailedAmong(last.cmds, {"rm archive", "rmtree"}))
       => /\ os.files \subseteq last.os_before.files
          /\ os.tmpdirs \subseteq last.os_before.tmpdirs
    /\ (/\ last.op = "destroy"
        /\ (last.arch_before = NoArchive \/ last.destroyed_before))
       => /\ last.exc = "none"
          /\ last.cmds = <<>>
          /\ os = last.os_before

\* C19 witness: an __enter__ whose archiver failed and left a partial file;
\* file and scratch directory were removed before the error came out.
C19_Witness ==
    /\ last.op = "enter"
    /\ last.exc = "CalledProcessError"
    /\ \E i \in Issued(last.cmds, "rm archive") : last.cmds[i].ok
    /\ \E i \in Issued(last.cmds, "rmtree") : last.cmds[i].ok
    /\ os = last.os_before


(***************************************************************************)
(* Names and records.  A name is a sequence of characters; a character is  *)
(* an integer: the fields of a timestamp text are the numbers >= 0, the    *)
(* other characters are negative.                                          *)
(***************************************************************************)
Underscore == -1
Dot == -2
CharT == -3
Letter == -4

\* datetime.resolution, and the timedelta(seconds=1) it is compared with,
\* in microseconds
DatetimeResolution == 1
OneSecond == 1000000

\* strftime(ISO8601_COMPACT) of the instant t in a zone `off` minutes east:
\* the date, "T", hour, minute, second, and the offset.
Strftime(t, off) ==
    LET l == t + off * 60
    IN  <<l \div 86400, CharT, (l % 86400) \div 3600, (l % 3600) \div 60,
          l % 60, off>>

\* datetime.strptime(text, ISO8601_COMPACT): the instant, or None for
\* ValueError.
Strptime(s) ==
    IF /\ Len(s) = 6
       /\ s[1] >= 0
       /\ s[2] = CharT
       /\ s[3] \in 0..23
       /\ s[4] \in 0..59
       /\ s[5] \in 0..59
       /\ s[6] >= 0
    THEN Some(s[1] * 86400 + s[3] * 3600 + s[4] * 60 + s[5] - s[6] * 60)
    ELSE None

\* str.startswith
StartsWith(s, p) == Len(s) >= Len(p) /\ SubSeq(s, 1, Len(p)) = p

\* s.split(c)[0]
RECURSIVE SplitHead(_, _)
SplitHead(s, c) ==
    IF s = <<>> \/ Head(s) = c THEN <<>>
    ELSE <<Head(s)>> \o SplitHead(Tail(s), c)

\* Backup.__init__ on a timestamp [secs, aware, micro]
BackupInit(stamp) ==
    IF ~stamp.aware THEN "AttributeError"
    ELSE IF DatetimeResolution > OneSecond THEN "AttributeError"
    ELSE "ok"

\* the time string of a directory entry cut at the first "." as well
TimeString_SplitAlways(rest, is_dir) == SplitHead(rest, Dot)

\* get_backups: the time string of an entry, from the text behind the prefix
TimeString(rest, is_dir) == IF is_dir THEN rest ELSE SplitHead(rest, Dot)

\* The body of the loop of get_backups on one entry of the listing: the
\* record appended to ret, if any, and the exception that escapes.
ParseEntry(e, name) ==
    IF ~StartsWith(e.name, name \o <<Underscore>>)
    THEN [rec |-> None, exc |-> "none"]
    ELSE LET rest == SubSeq(e.name, Len(name) + 2, Len(e.name))
             t == Strptime(TimeString(rest, e.is_dir))
         IN  IF IsNone(t) THEN [rec |-> None, exc |-> "none"]
             ELSE LET made == BackupInit([secs |-> Get(t), aware |-> TRUE,
                                          micro |-> 0])
                  IN  IF made = "ok"
                      THEN [rec |-> Some(MkBackup(Get(t), e.name, e.is_dir)),
                            exc |-> "none"]
                      ELSE [rec |-> None, exc |-> made]

\* The name backup() gives its object: "{name}_{time}" for a directory,
\* "{name}_{time}{extension}" for an archive.
BackupName(name, t, off, archive, ext) ==
    name \o <<Underscore>> \o Strftime(t, off) \o (IF archive THEN ext ELSE <<>>)

\* The inputs: the instants and the zones of a timestamp, target names,
\* archive extensions, and listing entries put together from a prefix, a
\* time text and a suffix.
NumStamps == 2

Stamps == {Instants[i] + x : i \in 1..NumStamps, x \in {0, 59}}
Offsets == {0, 540}
TargetNames == {<<Letter>>, <<Letter, Underscore, Letter>>, <<Letter, Dot, Letter>>}
Extensions == {<<>>, <<Dot, Letter>>, <<Dot, Letter, Dot, Letter>>, <<Letter>>}

TimeTexts ==
    {Strftime(t, o) : t \in Stamps, o \in Offsets}
    \cup {<<>>, <<Letter>>, <<1, CharT, 24, 0, 0, 0>>, <<1, CharT, 0, 60, 0, 0>>,
          <<1, CharT, 0, 0, 60, 0>>, <<1, 0, 0, 0, 0>>, <<1, CharT, 0, 0, 0>>,
          <<1, Letter, 0, 0, 0, 0>>}

Entries(name) ==
    {[name |-> pre \o txt \o suf, is_dir |-> d] :
        pre \in {name \o <<Underscore>>, name, name \o <<Letter, Underscore>>,
                 <<Underscore>>, <<>>},
        txt \in TimeTexts,
        suf \in Extensions \cup {<<Underscore, Letter>>, <<0>>},
        d \in BOOLEAN}

RecordInputs ==
    {[kind |-> "entry", name |-> n, entry |-> e] :
        n \in {<<Letter>>}, e \in Entries(<<Letter>>)}
    \cup {[kind |-> "run", name |-> n, time |-> t, off |-> o, archive |-> a,
           ext |-> x] :
            n \in TargetNames, t \in Stamps, o \in Offsets, a \in BOOLEAN,
            x \in Extensions}
    \cup {[kind |-> "stamp", secs |-> t, aware |-> a, micro |-> u] :
            t \in Stamps, a \in BOOLEAN, u \in {0, 1, 500000}}

InitRecords ==
    /\ run \in RecordInputs
    /\ last = NoCall
    /\ pc = "record"
    /\ cfg = BaseConfig
    /\ env \in Machines(cfg.src_type)
    /\ clock = 1
    /\ remote = {}
    /\ backups = None
    /\ new_backup = None
    /\ prov = NoProvider
    /\ arch = NoArchive
    /\ os = EmptyOs

\* get_backups meets the entry in a listing
ParseCall ==
    /\ pc = "record"
    /\ run.kind = "entry"
    /\ LET r == ParseEntry(run.entry, run.name)
       IN  last' = [op |-> "parse", rec |-> r.rec, exc |-> r.exc]
    /\ pc' = "done"
    /\ UNCHANGED <<cfg, clock, remote, backups, new_backup, env, prov, arch,
                   os, run>>

\* backup() names its object and builds its record, the object appears in
\* the listing, and get_backups meets it
RoundTripCall ==
    /\ pc = "record"
    /\ run.kind = "run"
    /\ LET nm == BackupName(run.name, run.time, run.off, run.archive, run.ext)
           r == ParseEntry([name |-> nm, is_dir |-> ~run.archive], run.name)
       IN  last' = [op |-> "round_trip",
                    made |-> MkBackup(run.time, nm, ~run.archive),
                    rec |-> r.rec, exc |-> r.exc]
    /\ pc' = "done"
    /\ UNCHANGED <<cfg, clock, remote, backups, new_backup, env, prov, arch,
                   os, run>>

\* Backup(...) on the timestamp
ConstructCall ==
    /\ pc = "record"
    /\ run.kind = "stamp"
    /\ last' = [op |-> "construct",
                result |-> BackupInit([secs |-> run.secs, aware |-> run.aware,
                                       micro |-> run.micro])]
    /\ pc' = "done"
    /\ UNCHANGED <<cfg, clock, remote, backups, new_backup, env, prov, arch,
                   os, run>>

NextRecords == ParseCall \/ RoundTripCall \/ ConstructCall

SpecRecords == InitRecords /\ [][NextRecords]_vars

\* A compact ISO-8601 timestamp text: date, "T", hour, minute, second, zone.
IsStampText(s) ==
    /\ DOMAIN s = 1..6
    /\ s[1] \in Nat
    /\ s[2] = CharT
    /\ s[3] \in 0..23
    /\ s[4] \in 0..59
    /\ s[5] \in 0..59
    /\ s[6] \in Nat

\* The text of a name behind its first n characters, and the part of a text
\* in front of its first "." .
Behind(s, n) == [k \in 1..(Len(s) - n) |-> s[k + n]]
BeforeFirstDot(s) ==
    LET dots == {k \in 1..Len(s) : s[k] = Dot}
    IN  IF dots = {} THEN s
        ELSE SubSeq(s, 1, (CHOOSE k \in dots : \A j \in dots : k <= j) - 1)

\* C14: an entry of the listing becomes a record exactly when its name
\* starts with "{name}_" and the text behind that prefix (for an entry that
\* is not a directory, the part of it in front of the first ".") is a
\* timestamp text; no entry raises an error.
C14_IncludedIffPrefixAndStamp ==
    last.op = "parse"
    => /\ last.exc = "none"
       /\ ~IsNone(last.rec)
            <=> /\ StartsWith(run.entry.name, run.name \o <<Underscore>>)
                /\ LET text == Behind(run.entry.name, Len(run.name) + 1)
                   IN  IsStampText(IF run.entry.is_dir THEN text
                                   ELSE BeforeFirstDot(text))

\* C14 witness: a file entry with a two-part extension is included.
C14_Witness ==
    /\ last.op = "parse"
    /\ ~IsNone(last.rec)
    /\ ~run.entry.is_dir
    /\ Cardinality({k \in 1..Len(run.entry.name) : run.entry.name[k] = Dot}) = 2

\* C16: the object name backup() makes is recognised by get_backups, and
\* the record built from the listing equals the record of the run: same
\* time, same path, same directory/file kind.
C16_RoundTrip ==
    last.op = "round_trip"
    => /\ last.exc = "none"
       /\ ~IsNone(last.rec)
       /\ BackupEq(Get(last.rec), last.made)
       /\ Get(last.rec).is_dir = last.made.is_dir

\* C20: the construction of a record succeeds exactly for a timestamp that
\* has timezone information and no sub-second part.
C20_ConstructionRejectsNaiveAndSubSecond ==
    last.op = "construct"
    => (last.result = "ok" <=> (run.aware /\ run.micro = 0))

(***************************************************************************)
(* The caller: run() of the command line walks the Sync objects made from  *)
(* the configuration file and calls backup() on each; the Sync objects     *)
(* write to one remote.                                                    *)
(***************************************************************************)
\* except-branches that call undo() for an Exception only
RunExcept_ExceptionOnly(result) ==
    [undo |-> result # "KeyboardInterrupt",
     surfaced |-> IF result = "KeyboardInterrupt" THEN "return 1" ELSE result]

\* The except-branches of the loop for a backup() that ended with `result`:
\* whether undo() is called, and what is surfaced if undo() returns.
RunExcept(result) ==
    [undo |-> TRUE,
     surfaced |-> IF result = "KeyboardInterrupt" THEN "return 1" ELSE result]

\* backup() of the Sync object handed control back, and how
BackupEnded == pc = "idle" /\ last.op = "backup" /\ last.result # "running"

\* the loop reaches the next Sync object (a fresh one) and calls backup()
MainBackup ==
    /\ pc = "idle"
    /\ last.op = "none" \/ (BackupEnded /\ last.result = "ok")
    /\ run.n < env.calls
    /\ new_backup' = None
    /\ backups' = None
    /\ IF cfg.dst_type # "rclone"
       THEN /\ last' = [op |-> "backup", result |-> "NotImplementedError",
                        cmds |-> <<>>, time |-> Now, os_before |-> os,
                        reached |-> FALSE]
            /\ run' = Idle(run.n + 1)
            /\ UNCHANGED <<pc, prov, arch>>
       ELSE /\ last' = [op |-> "backup", result |-> "running", cmds |-> <<>>,
                        time |-> Now, os_before |-> os, reached |-> FALSE]
            /\ run' = [op |-> "backup", n |-> run.n + 1, time |-> Now,
                       cmds |-> <<>>, exc |-> "none", os_before |-> os,
                       reached |-> FALSE]
            /\ pc' = "snapshot"
            /\ prov' = Provider(cfg.src_type)
            /\ arch' = NoArchive
    /\ UNCHANGED <<cfg, clock, remote, env, os>>

\* backup() raised: the except-branch calls undo() and surfaces
MainExcept ==
    /\ BackupEnded
    /\ last.result # "ok"
    /\ LET h == RunExcept(last.result)
       IN  IF h.undo
           THEN \E u \in UndoOutcomes(new_backup, backups, remote, cfg.name,
                                      env.flaky) :
                  /\ new_backup' = u.new_backup
                  /\ backups' = u.cache
                  /\ remote' = {o \in remote : ObjPath(o) \notin u.removed}
                  /\ last' = [op |-> "run", backup_result |-> last.result,
                              undo_calls |-> 1, dels |-> u.dels,
                              surfaced |-> IF u.result # "ok" THEN u.result
                                           ELSE h.surfaced]
           ELSE /\ UNCHANGED <<new_backup, backups, remote>>
                /\ last' = [op |-> "run", backup_result |-> last.result,
                            undo_calls |-> 0, dels |-> {},
                            surfaced |-> h.surfaced]
    /\ pc' = "returned"
    /\ UNCHANGED <<cfg, clock, env, prov, arch, os, run>>

\* every backup() returned: run() returns 0
MainReturn ==
    /\ BackupEnded
    /\ last.result = "ok"
    /\ run.n = env.calls
    /\ last' = [op |-> "run", backup_result |-> "ok", undo_calls |-> 0,
                dels |-> {}, surfaced |-> "return 0"]
    /\ pc' = "returned"
    /\ UNCHANGED <<cfg, clock, remote, backups, new_backup, env, prov, arch,
                   os, run>>

NextMain ==
    \/ MainBackup
    \/ BackupSnapshot
    \/ BackupArchive
    \/ BackupCopy
    \/ BackupUpload
    \/ BackupExitArchive
    \/ BackupExitSnapshot
    \/ MainExcept
    \/ MainReturn

SpecMain == Init /\ [][NextMain]_vars

\* C21: when backup() of a Sync object has ended with an interrupt or an
\* exception, the next thing that happens is one undo() on that object
\* followed by the error being surfaced; no backup() is started after a
\* failed one, and nothing runs once run() has surfaced.
C21_UndoOnceThenSurface ==
    [][/\ (BackupEnded /\ last.result # "ok")
            => /\ pc' = "returned"
               /\ last'.op = "run"
               /\ last'.undo_calls = 1
               /\ last'.backup_result = last.result
               /\ run' = run
       /\ pc # "returned"]_vars

\* C21 witness: backup() was interrupted during the upload, undo() removed
\* the object of the run, and run() returned 1.
C21_Witness ==
    /\ pc = "returned"
    /\ last.op = "run"
    /\ last.backup_result = "KeyboardInterrupt"
    /\ last.dels # {}
    /\ last.surfaced = "return 1"

(***************************************************************************)
(* Failures on the cleanup path of backup().                                *)
(***************************************************************************)
CleanupTools == {"zfs destroy", "umount", "btrfs delete", "rm archive", "rmtree"}
ArchiveCleanupTools == {"rm archive", "rmtree"}
ReleaseTools == {"zfs destroy", "umount", "btrfs delete"}

\* the exception a failed cleanup command raises
CleanupExc(tool) ==
    IF tool \in ArchiveCleanupTools THEN "OSError" ELSE "CalledProcessError"

FailedCleanups(cmds) ==
    {i \in 1..Len(cmds) : cmds[i].tool \in CleanupTools /\ ~cmds[i].ok}

\* C22: a backup() during which a cleanup command failed (deleting the
\* archive or its scratch directory, unmounting or destroying the snapshot)
\* ends with the exception of the last cleanup command that failed; and
\* after a failed deletion of the archive on a snapshot source, a command
\* that releases the snapshot is still issued.
C22_CleanupFailurePropagates ==
    (last.op = "backup" /\ last.result # "running")
    => LET f == FailedCleanups(last.cmds)
       IN  /\ f # {}
                => LET i == CHOOSE k \in f : \A j \in f : j <= k
                   IN  last.result = CleanupExc(last.cmds[i].tool)
           /\ \A i \in f :
                (last.cmds[i].tool \in ArchiveCleanupTools
                 /\ cfg.src_type # "directory")
                => \E j \in (i + 1)..Len(last.cmds) :
                      last.cmds[j].tool \in ReleaseTools

\* C22 witness: the upload returned, the deletion of the archive failed,
\* the snapshot was destroyed after it, and backup() raised the error of the
\* deletion.
C22_Witness ==
    /\ last.op = "backup"
    /\ last.result = "OSError"
    /\ last.reached
    /\ \E i \in FailedCleanups(last.cmds) :
          /\ last.cmds[i].tool = "rm archive"
          /\ \E j \in (i + 1)..Len(last.cmds) :
                last.cmds[j].tool = "zfs destroy" /\ last.cmds[j].ok

(***************************************************************************)
(* The grouping loop of clean() on its own, over histories in any order.   *)
(***************************************************************************)
\* every order of the records of S
RECURSIVE Orders(_)
Orders(S) ==
    IF S = {} THEN {<<>>}
    ELSE UNION {{<<m>> \o s : s \in Orders(S \ {m})} : m \in S}

Histories ==
    UNION {Orders(T) : T \in SUBSET ParseListing(PastObjects(NumInstants),
                                                 TargetName)}

InitGrouping ==
    /\ run \in {[op |-> "grouping", backups |-> h, min_age |-> a] :
                  h \in Histories, a \in MinAges}
    /\ clock = NumInstants
    /\ last = NoCall
    /\ pc = "grouping"
    /\ cfg = BaseConfig
    /\ env = [flaky |-> FALSE, is_root |-> TRUE, mountpoint_known |-> TRUE,
              calls |-> 0]
    /\ remote = {}
    /\ backups = None
    /\ new_backup = None
    /\ prov = NoProvider
    /\ arch = NoArchive
    /\ os = EmptyOs

\* the first loop of clean() over the history
GroupingCall ==
    /\ pc = "grouping"
    /\ last' = [op |-> "grouping",
                grouping |-> Grouping(run.backups, Now, run.min_age)]
    /\ pc' = "done"
    /\ UNCHANGED <<cfg, clock, remote, backups, new_backup, env, prov, arch,
                   os, run>>

NextGrouping == GroupingCall

SpecGrouping == InitGrouping /\ [][NextGrouping]_vars

\* the records of the history outside the grace window whose timestamp
\* falls in the period `key` of the tier
Members(tier, key) ==
    {b \in Range(run.backups) :
        /\ ~(Now - b.time < run.min_age)
        /\ BucketKey(tier, b.time) = key}

PeriodsOf(tier) ==
    {BucketKey(tier, b.time) :
        b \in {x \in Range(run.backups) : ~(Now - x.time < run.min_age)}}

C24_RepresentativeIsNewest ==
    last.op = "grouping"
    => \A tier \in TierSet :
          \A key \in PeriodsOf(tier) :
             \A m \in Members(tier, key) :
                m.time <= last.grouping[tier][key].time

(***************************************************************************)
(* The second loop of clean(): the limit of every tier.                    *)
(***************************************************************************)
\* clean() under every combination of the five limits, without a grace
\* window and with one that holds the latest records
InitLimits ==
    /\ cfg \in {[BaseConfig EXCEPT !.timeline = t] :
                  t \in {x \in Timelines : x.min_age \in {0, 100000}}}
    /\ clock = NumInstants
    /\ remote \in SUBSET PastObjects(clock)
    /\ backups = None
    /\ new_backup = None
    /\ last = NoCall
    /\ env = [flaky |-> FALSE, is_root |-> TRUE, mountpoint_known |-> TRUE,
              calls |-> 0]
    /\ pc = "idle"
    /\ prov = NoProvider
    /\ arch = NoArchive
    /\ os = EmptyOs
    /\ run = NoRun

NextLimits == Clean

SpecLimits == InitLimits /\ [][NextLimits]_vars

\* the records of the history clean() left alone
Survivors == {b \in Range(last.history) : \A d \in last.dels : d.path # b.path}

HoursOf(h) == {BucketKey("limit_hourly", b.time) : b \in Range(h)}

Min(a, b) == IF a <= b THEN a ELSE b

IssuedByStep == SubSeq(run'.cmds, Len(run.cmds) + 1, Len(run'.cmds))

\* the history _server_side_copy worked on: the cache if one is loaded
\* after the step (it was loaded before, or the step loaded it), else the
\* empty history of a failed listing
CopyHistory == IF IsNone(backups') THEN <<>> ELSE Get(backups')

C27_UnmountBeforeDestroy ==
    [][(last'.op = "release" /\ prov.kind = "zfs")
          => LET c == last'.cmds
                 manual == /\ prov.manual_mount_flag
                           /\ ~IsNone(prov.snapshot_mount_path)
                           /\ ~IsNone(prov.snapshot_fullname)
             IN  IF manual
                 THEN LET d == Get(prov.snapshot_mount_path)[2]
                      IN  /\ c # <<>>
                          /\ c[1] = Cmd("umount", d, c[1].ok)
                          /\ \A j \in Issued(c, "zfs destroy") :
                                /\ c[1].ok
                                /\ j = 3
                                /\ c[2] = Cmd("rmdir", d, TRUE)
                                /\ d \notin os'.mounts
                                /\ d \notin os'.dirs
                          /\ ~c[1].ok => Len(c) = 1 /\ os' = os
                 ELSE Issued(c, "umount") = {}
      ]_vars

\* C27 witness: a release that unmounted, removed the directory and
\* destroyed the snapshot.
C27_Witness ==
    /\ last.op = "release"
    /\ last.exc = "none"
    /\ Len(last.cmds) = 3
    /\ last.cmds[1].tool = "umount"
    /\ last.cmds[2].tool = "rmdir"
    /\ last.cmds[3].tool = "zfs destroy"
    /\ last.os_before.mounts # {}
    /\ os.mounts = {}

(***************************************************************************)
(* create_archive in detail: the test for the external tool, the choice of *)
(* the workspace, the scratch directory and the start of the archiver.     *)
(***************************************************************************)
MaxRoots == 3

ArchiveTypes == {"tar", "7z", "rar"}

\* _get_working_path with "free_space >= input_size"
RECURSIVE WorkingPathFrom_Inclusive(_, _, _)
WorkingPathFrom_Inclusive(free, size, i) ==
    IF i > Len(free) THEN None
    ELSE IF free[i] >= size THEN Some(i)
    ELSE WorkingPathFrom_Inclusive(free, size, i + 1)

\* The loop of _get_working_path over CONFIG.archive_working_paths from the
\* i-th root on: the first root with more free space than the input takes,
\* None when the loop runs out (RuntimeError).
RECURSIVE WorkingPathFrom(_, _, _)
WorkingPathFrom(free, size, i) ==
    IF i > Len(free) THEN None
    ELSE IF free[i] > size THEN Some(i)
    ELSE WorkingPathFrom(free, size, i + 1)

\* The test create_archive makes for its tool before anything else: _Sevenz
\* and _Rar raise when the configured path is None, _Tar makes no test.
ToolTest(type, tool_present) ==
    IF type \in {"7z", "rar"} /\ ~tool_present THEN "RuntimeError" ELSE "none"

\* create_archive on a handler without an archive: what it did on the
\* filesystem, in order ("scan": the walk of the source tree for its size,
\* "mkdtemp", "exec": the start of the archiver), the root it chose and the
\* exception.  An archiver that is not installed fails to start.
CreateSteps(type, tool_present, free, size) ==
    IF ToolTest(type, tool_present) # "none"
    THEN [steps |-> <<>>, root |-> None, exc |-> ToolTest(type, tool_present)]
    ELSE LET w == WorkingPathFrom(free, size, 1)
         IN  IF IsNone(w)
             THEN [steps |-> <<"scan">>, root |-> None, exc |-> "RuntimeError"]
             ELSE [steps |-> <<"scan", "mkdtemp", "exec">>, root |-> w,
                   exc |-> IF tool_present THEN "none"
                           ELSE "FileNotFoundError"]

FreeSpaces == {10, 50, 100}
InputSizes == {5, 10, 50, 60, 100, 200}

InitWorkspace ==
    /\ run \in {[op |-> "create", type |-> t, tool_present |-> p, free |-> f,
                 size |-> z] :
                  t \in ArchiveTypes, p \in BOOLEAN,
                  f \in UNION {[1..n -> FreeSpaces] : n \in 0..MaxRoots},
                  z \in InputSizes}
    /\ last = NoCall
    /\ pc = "workspace"
    /\ cfg = [BaseConfig EXCEPT !.archive_enable = TRUE]
    /\ env = [flaky |-> FALSE, is_root |-> TRUE, mountpoint_known |-> TRUE,
              calls |-> 0]
    /\ clock = 1
    /\ remote = {}
    /\ backups = None
    /\ new_backup = None
    /\ prov = NoProvider
    /\ arch = NoArchive
    /\ os = EmptyOs

\* create_archive is called
CreateCall ==
    /\ pc = "workspace"
    /\ LET c == CreateSteps(run.type, run.tool_present, run.free, run.size)
       IN  last' = [op |-> "create", steps |-> c.steps, root |-> c.root,
                    exc |-> c.exc]
    /\ pc' = "done"
    /\ UNCHANGED <<cfg, clock, remote, backups, new_backup, env, prov, arch,
                   os, run>>

NextWorkspace == CreateCall

SpecWorkspace == InitWorkspace /\ [][NextWorkspace]_vars

\* C28: a create that gets as far as the choice of the workspace takes the
\* first root, in the order of the list, whose free space is greater than
\* the size of the source; a root with free space equal to the size does
\* not qualify; when no root qualifies create raises RuntimeError and has
\* made no scratch directory.
C28_FirstRootWithRoom ==
    (last.op = "create" /\ last.steps # <<>>)
    => LET fits == {i \in 1..Len(run.free) : run.free[i] > run.size}
       IN  IF fits = {}
           THEN /\ last.exc = "RuntimeError"
                /\ IsNone(last.root)
                /\ \A k \in 1..Len(last.steps) : last.steps[k] # "mkdtemp"
           ELSE /\ last.root = Some(CHOOSE i \in fits : \A j \in fits : i <= j)
                /\ \E k \in 1..Len(last.steps) : last.steps[k] = "mkdtemp"

\* C28 witness: free space 10, 50, 100 and a source of size 60: the third
\* root is taken.
C28_Witness ==
    /\ last.op = "create"
    /\ run.free = <<10, 50, 100>>
    /\ run.size = 60
    /\ last.root = Some(3)

\* C29: a create whose external tool is missing raises the configuration
\* error (RuntimeError) and has done nothing on the filesystem: no scan of
\* the source tree, no scratch directory.
C29_MissingToolFailsBeforeFilesystemWork ==
    (last.op = "create" /\ ~run.tool_present)
    => /\ last.exc = "RuntimeError"
       /\ last.steps = <<>>

(***************************************************************************)
(* The name of a snapshot: the filter of __init__ and the collision loop   *)
(* of create_snapshot, for _Btrfs and _Zfs.  A random suffix is one of     *)
(* NumSuffixes values; of the names the loop can make, one at least is     *)
(* free.                                                                   *)
(***************************************************************************)
MaxName == 2
NumSuffixes == 3

\* _LETTERS: a letter, a digit and the underscore stand for their kinds;
\* "+" (of the UTC offset in "temp_{timestamp}") and "@" for the rest
LETTERS == {"a", "1", "_"}
NameChars == LETTERS \cup {"+", "@"}

\* a filter that lets every character through
SnapnameFilter_KeepsAll(name) == name

\* "".join(filter(lambda char: char in _LETTERS, snapname))
SnapnameFilter(name) == SelectSeq(name, LAMBDA c : c \in LETTERS)

\* the candidates of the loop: 0 is the name without a suffix
Candidates == 0..NumSuffixes

InitNaming ==
    /\ run \in {[op |-> "naming", kind |-> k, requested |-> r, existing |-> e,
                 snapname |-> <<>>, candidate |-> 0] :
                  k \in {"btrfs", "zfs"},
                  r \in UNION {[1..n -> NameChars] : n \in 0..MaxName},
                  e \in {x \in SUBSET Candidates : (Candidates \ {0}) \ x # {}}}
    /\ pc = "naming_init"
    /\ last = NoCall
    /\ cfg = BaseConfig
    /\ env = [flaky |-> FALSE, is_root |-> TRUE, mountpoint_known |-> TRUE,
              calls |-> 0]
    /\ clock = 1
    /\ remote = {}
    /\ backups = None
    /\ new_backup = None
    /\ prov = NoProvider
    /\ arch = NoArchive
    /\ os = EmptyOs

\* __init__ filters the name; create_snapshot starts with the plain name
NameFilter ==
    /\ pc = "naming_init"
    /\ run' = [run EXCEPT !.snapname = SnapnameFilter(run.requested),
                          !.candidate = 0]
    /\ pc' = "naming_loop"
    /\ UNCHANGED <<cfg, clock, remote, backups, new_backup, last, env, prov,
                   arch, os>>

\* the body of the while loop: the candidate exists (BTRFS: the path; ZFS:
\* the name is in the listing), a random suffix is drawn
NameRetry ==
    /\ pc = "naming_loop"
    /\ run.candidate \in run.existing
    /\ \E k \in Candidates \ {0} : run' = [run EXCEPT !.candidate = k]
    /\ UNCHANGED <<cfg, clock, remote, backups, new_backup, last, env, pc,
                   prov, arch, os>>

\* the loop is left and the snapshot command is issued with the candidate
NameIssue ==
    /\ pc = "naming_loop"
    /\ run.candidate \notin run.existing
    /\ last' = [op |-> "snapshot",
                tool |-> IF run.kind = "zfs" THEN "zfs snapshot"
                         ELSE "btrfs snapshot",
                name |-> <<run.snapname, run.candidate>>]
    /\ pc' = "issued"
    /\ UNCHANGED <<cfg, clock, remote, backups, new_backup, env, prov, arch,
                   os, run>>

NextNaming == NameFilter \/ NameRetry \/ NameIssue

\* A suffix drawn at random is, sooner or later, one that is free.
SpecNaming ==
    /\ InitNaming
    /\ [][NextNaming]_vars
    /\ WF_vars(NameFilter)
    /\ WF_vars(NameIssue)
    /\ SF_vars(NameRetry /\ run'.candidate \notin run.existing)

\* C30: the filtered name holds letters, digits and underscores only (and
\* every such character of the requested name); the collision loop ends;
\* and the name the snapshot command is issued with does not exist (BTRFS:
\* the path; ZFS: the name in the listing of the handler).
C30_NameFilteredLoopEndsNameFresh ==
    /\ [](pc # "naming_init"
          => /\ \A i \in 1..Len(run.snapname) : run.snapname[i] \in LETTERS
             /\ Len(run.snapname)
                  = Cardinality({i \in 1..Len(run.requested) :
                                   run.requested[i] \in LETTERS}))
    /\ [](pc = "issued"
          => /\ last.name = <<run.snapname, run.candidate>>
             /\ run.candidate \notin run.existing)
    /\ <>(pc = "issued")

\* C30 witness: a requested name with a character that is filtered out, the
\* plain name and one suffixed name exist, and the command is issued with
\* another suffix.
C30_Witness ==
    /\ pc = "issued"
    /\ Len(run.snapname) < Len(run.requested)
    /\ Len(run.snapname) >= 1
    /\ Cardinality(run.existing) = 2
    /\ last.name[2] # 0

(***************************************************************************)
(* undo() after a backup() that returned.                                  *)
(***************************************************************************)
\* C31: a backup whose backup() call returned normally is not deleted by
\* undo(): an undo() that follows a backup() which returned normally issues
\* no delete for the path that backup() wrote.
C31_CompletedBackupNotUndone ==
    [][(last.op = "backup" /\ last.result = "ok" /\ last'.op = "undo")
       => \A d \in last'.dels : d.path # NewBackup(cfg, last.time).path]_vars

(***************************************************************************)
(* The cached history after a delete.                                      *)
(***************************************************************************)
\* C32: the cached history holds no record that this Sync has deleted from
\* the remote: when clean() or undo() has returned normally, no record whose
\* delete succeeded is in the cached history (what get_backups() without
\* force returns).
C32_CacheDropsDeletedRecords ==
    (last.op \in {"clean", "undo"} /\ last.result = "ok" /\ ~IsNone(backups))
    => \A d \in last.dels :
          d.ok => \A b \in Range(Get(backups)) : b.path # d.path

(***************************************************************************)
(* The program run with --clean, and run again at the same instant: every  *)
(* run builds a new Sync for the target and calls its clean().             *)
(***************************************************************************)
\* run() with args.clean: Sync(...) with nothing cached and nothing in
\* flight, then sync.clean() of it.
MainClean ==
    /\ pc = "idle"
    /\ run.n < env.calls
    /\ new_backup' = None
    /\ run' = Idle(run.n + 1)
    /\ \E g \in GetBackups(None, FALSE, remote, cfg.name) :
         /\ backups' = g.cache
         /\ IF g.ret = <<>>
            THEN /\ remote' = remote
                 /\ last' = [NoCall EXCEPT !.op = "clean", !.now = Now,
                                           !.listed = g.listed,
                                           !.ls_ok = g.ls_ok]
            ELSE \E r \in RemoveRuns(ToRemove(g.ret, Now, cfg.timeline), remote,
                                     env.flaky) :
                   /\ remote' = {o \in remote : ObjPath(o) \notin r.removed}
                   /\ last' = [op |-> "clean",
                               result |-> IF r.raised THEN "CalledProcessError"
                                          ELSE "ok",
                               now |-> Now, history |-> g.ret,
                               listed |-> g.listed, ls_ok |-> g.ls_ok,
                               dels |-> r.dels]
    /\ UNCHANGED <<cfg, clock, env, pc, prov, arch, os>>

\* Any history among the first instants, every combination of the five
\* limits, without a grace window and with one; a listing may fail, a
\* delete of an object that is there works.
InitRepeat ==
    /\ cfg \in {[BaseConfig EXCEPT !.timeline = t] :
                  t \in {x \in Timelines : x.min_age \in {0, 100000}}}
    /\ clock = NumInstants
    /\ remote \in SUBSET PastObjects(clock)
    /\ backups = None
    /\ new_backup = None
    /\ last = NoCall
    /\ env = [flaky |-> FALSE, is_root |-> TRUE, mountpoint_known |-> TRUE,
              calls |-> MaxRuns + 1]
    /\ pc = "idle"
    /\ prov = NoProvider
    /\ arch = NoArchive
    /\ os = EmptyOs
    /\ run = NoRun

NextRepeat == MainClean

SpecRepeat == InitRepeat /\ [][NextRepeat]_vars

\* a clean() that listed the remote and returned normally
CleanSucceeded == last.op = "clean" /\ last.ls_ok /\ last.result = "ok"

\* C33: the retention computation is idempotent: a clean() of a new Sync
\* that lists the remote afresh, at the same instant as a clean() that
\* listed the remote and returned normally, finds the records the first one
\* kept, keeps every one of them, issues no delete and leaves the remote as
\* it is.
C33_SecondCleanDeletesNothing ==
    [][(/\ CleanSucceeded
        /\ last'.op = "clean"
        /\ last'.ls_ok
        /\ last'.now = last.now)
       => /\ Range(last'.history) =
               KeepAlive(last.history, last.now, cfg.timeline)
          /\ KeepAlive(last'.history, last'.now, cfg.timeline) =
               Range(last'.history)
          /\ last'.dels = {}
          /\ last'.result = "ok"
          /\ remote' = remote]_vars

\* C33 witness: the second run of the program has listed the remote, found
\* two or more records, one of them in the grace window and one outside
\* it, fewer than were ever written, and deleted none of them.
C33_Witness ==
    /\ run.n = 2
    /\ CleanSucceeded
    /\ last.listed = 1
    /\ last.dels = {}
    /\ Len(last.history) >= 2
    /\ Cardinality(remote) < Cardinality(PastObjects(clock))
    /\ \E b \in Range(last.history) :
          InGrace(b, last.now, cfg.timeline.min_age)
    /\ \E b \in Range(last.history) :
          ~InGrace(b, last.now, cfg.timeline.min_age)

(***************************************************************************)
(* Two targets on one destination root: a Sync per target, their calls in  *)
(* any order.  The objects of the root carry their names as texts, and     *)
(* get_backups tells the targets apart by parsing them (ParseEntry).       *)
(* Every object also carries which target's backup() wrote it (`by`),      *)
(* which no listing reports.                                               *)
(***************************************************************************)
TargetIds == {1, 2}

\* a target name that ends like the name of an archive backup
StampedName == <<Letter, Underscore>> \o Strftime(Instants[1], 0) \o <<Dot, Letter>>

\* tar_extension
TarExtension == <<Dot, Letter>>

\* the two configurations of a YAML file: different names, a directory or
\* an archive each, one retention policy (nothing kept, or the backup of
\* the latest hour)
TargetConfigs ==
    {[i \in TargetIds |->
        [name |-> n[i], archive_enable |-> a[i], timeline |-> tl]] :
       n \in {x \in [TargetIds -> TargetNames \cup {StampedName}] :
                 x[1] = <<Letter>> /\ x[2] # x[1]},
       a \in [TargetIds -> BOOLEAN],
       tl \in {[BaseConfig.timeline EXCEPT !.limit_hourly = h,
                                           !.limit_daily = 0,
                                           !.limit_monthly = 0,
                                           !.limit_yearly = 0] : h \in {0, 1}}}

\* the record and the object of the backup() of target c started at time t
TargetBackupRecord(c, t) ==
    MkBackup(t, BackupName(c.name, t, 0, c.archive_enable, TarExtension),
             ~c.archive_enable)

TargetObject(c, t, i) ==
    [name |-> BackupName(c.name, t, 0, c.archive_enable, TarExtension),
     is_dir |-> ~c.archive_enable, by |-> i]

\* the loop of get_backups over a listing of the root
ListedRecords(objs, name) ==
    {Get(ParseEntry(o, name).rec) :
        o \in {x \in objs : ~IsNone(ParseEntry(x, name).rec)}}

\* get_backups(force) of one Sync on the shared root
GetBackupsOf(cache, force, objs, name) ==
    IF ~IsNone(cache) /\ ~force
    THEN {[ret |-> Get(cache), cache |-> cache, listed |-> 0, ls_ok |-> TRUE]}
    ELSE {[ret |-> <<>>, cache |-> cache, listed |-> 1, ls_ok |-> FALSE]}
         \cup {[ret |-> s, cache |-> Some(s), listed |-> 1, ls_ok |-> TRUE] :
                 s \in SortedLists(ListedRecords(objs, name))}

\* Backup.remove of every record of S; a remove of an object that is on the
\* root works.  `by` is whose objects the command removed.
RemovedBy(S, objs) ==
    {[cmd |-> RemoveCmd(b).cmd, path |-> b.path,
      ok |-> \E o \in objs : o.name = b.path,
      by |-> {o.by : o \in {x \in objs : x.name = b.path}}] : b \in S}

InitTargets ==
    /\ cfg \in TargetConfigs
    /\ clock = 1
    /\ remote = {}
    /\ backups = [i \in TargetIds |-> None]
    /\ new_backup = [i \in TargetIds |-> None]
    /\ last = NoCall
    /\ env = [flaky |-> FALSE, is_root |-> TRUE, mountpoint_known |-> TRUE,
              calls |-> 0]
    /\ pc = "idle"
    /\ prov = NoProvider
    /\ arch = NoArchive
    /\ os = EmptyOs
    /\ run = [op |-> "none", n |-> [i \in TargetIds |-> 0]]

\* backup() of target i (the caller runs it MaxRuns times at most): the
\* record is set as in flight, the upload runs, and the record is appended
\* to a loaded cache if the upload returned
TargetBackup(i) ==
    /\ pc = "idle"
    /\ run.n[i] < MaxRuns
    /\ run' = [run EXCEPT !.n[i] = @ + 1]
    /\ new_backup' = [new_backup EXCEPT
                        ![i] = Some(TargetBackupRecord(cfg[i], Now))]
    /\ \E e \in Endings :
         /\ remote' \in AfterTransfer(remote, TargetObject(cfg[i], Now, i), e)
         /\ backups' = [backups EXCEPT
                          ![i] = IF e = "ok"
                                 THEN Appended(@, TargetBackupRecord(cfg[i], Now))
                                 ELSE @]
         /\ last' = [op |-> "backup", target |-> i,
                     result |-> IF e = "ok" THEN "ok" ELSE ExcOf(e),
                     dels |-> {}]
    /\ UNCHANGED <<cfg, clock, env, pc, prov, arch, os>>

\* clean() of target i
TargetClean(i) ==
    /\ pc = "idle"
    /\ \E g \in GetBackupsOf(backups[i], FALSE, remote, cfg[i].name) :
         LET gone == IF g.ret = <<>> THEN {}
                     ELSE ToRemove(g.ret, Now, cfg[i].timeline)
             dels == RemovedBy(gone, remote)
         IN  /\ backups' = [backups EXCEPT ![i] = g.cache]
             /\ \A d \in dels : d.ok
             /\ remote' = {o \in remote : \A d \in dels : o.name # d.path}
             /\ last' = [op |-> "clean", target |-> i, result |-> "ok",
                         dels |-> dels]
    /\ UNCHANGED <<cfg, clock, new_backup, env, pc, prov, arch, os, run>>

\* undo() of target i
TargetUndo(i) ==
    /\ pc = "idle"
    /\ IF IsNone(new_backup[i])
       THEN /\ last' = [op |-> "undo", target |-> i, result |-> "ok",
                        dels |-> {}]
            /\ UNCHANGED <<remote, backups, new_backup>>
       ELSE \E g \in GetBackupsOf(backups[i], TRUE, remote, cfg[i].name) :
              LET listed == BackupIn(Get(new_backup[i]), Range(g.ret))
                  dels == IF listed
                          THEN RemovedBy({Get(new_backup[i])}, remote)
                          ELSE {}
              IN  /\ backups' = [backups EXCEPT ![i] = g.cache]
                  /\ new_backup' = IF listed
                                   THEN [new_backup EXCEPT ![i] = None]
                                   ELSE new_backup
                  /\ remote' = {o \in remote : \A d \in dels : o.name # d.path}
                  /\ last' = [op |-> "undo", target |-> i, result |-> "ok",
                              dels |-> dels]
    /\ UNCHANGED <<cfg, clock, env, pc, prov, arch, os, run>>

NextTargets ==
    \/ Tick
    \/ \E i \in TargetIds : TargetBackup(i)
    \/ \E i \in TargetIds : TargetClean(i)
    \/ \E i \in TargetIds : TargetUndo(i)

SpecTargets == InitTargets /\ [][NextTargets]_vars

\* C34: two targets of different names on one destination root are
\* isolated: no object written by backup() of one target is turned into a
\* record by get_backups() of the other, and clean() and undo() of a target
\* issue a delete only for objects its own backup() wrote.
C34_TargetsIsolated ==
    /\ \A i \in TargetIds : \A o \in remote :
          o.by # i => IsNone(ParseEntry(o, cfg[i].name).rec)
    /\ last.op \in {"clean", "undo"} =>
          \A d \in last.dels : d.by \subseteq {last.target}

=============================================================================
